---- MODULE Spec2Model ----
(***************************************************************************)
(* hexcast (src/uvspeed_hexcast.py): the frame protocol (make_packet,      *)
(* parse_packet and the codecs under them) and the Broadcaster session     *)
(* (run_serve: peer handlers, the shared broadcast loop, shutdown).        *)
(*                                                                         *)
(* Text on the wire is a sequence of character codes (ASCII), bytes are    *)
(* sequences of 0..255.  Python values are records of one shape, told      *)
(* apart by their tag: None, int, str, dict (a sequence of key/value       *)
(* pairs, as json keeps them in order).                                    *)
(***************************************************************************)
EXTENDS Integers, Sequences, FiniteSets, TLC

VARIABLES
    backend,    \* decoder found by _has_cv2/_has_pil: "cv2", "pil" or "none"
    cvEmpty,    \* what cv2.imdecode does with an empty buffer in this build
    role,       \* what main was asked to run: "serve", "receive", "connect", "chat",
                \* or "none" where only the protocol functions are exercised
    wPc,        \* wire harness: "idle", "ready" (a raw message is at hand), "parsed"
    wRaw,       \* the raw message handed to parse_packet
    wMade,      \* what make_packet was called with and what it wrote
    wOut,       \* what parse_packet returned
    test,       \* run_serve: args.test, the synthetic pattern instead of a camera
    cap,        \* the capture device: "none", "open", "released"
    mdns,       \* zc and mdns_info: "unset", "none" (zc is None), "registered",
                \* "failed" (both set, register_service raised), "unregistered"
    session,    \* "INIT", "CONNECTING", "ACTIVE", "CLOSING", "CLOSED"
    cause,      \* what ended the session: "none", "camera", "bind", "raised", "interrupt"
    exitCode,   \* the process's exit status; -1 while it runs
    clients,    \* the peer registry
    hstate,     \* per peer, its handler: "new", "open" (awaiting a message),
                \* "closed", "failed" (left by an exception nothing caught)
    frame_num,  \* frame_num[0]
    bpc,        \* broadcast_loop: "idle", "top", "sleep", "raised"
    lastTick,   \* the last tick of broadcast_loop: what it found and did
    outbox,     \* every message handed to a peer's socket, in order
    lastMsg,    \* the message a handler took last, and whose handler
    msgs,       \* messages taken by the handlers so far
    listening,  \* the server's listening socket is open
    steps,      \* what the session's shutdown has done so far, in order:
                \* "terminal", "capture", "mdns", "sockets"
    term,       \* the terminal: input mode ("cooked", "cbreak") and cursor
    peers,      \* run_receive: the senders connected
    frame_count,   \* run_receive: frame_count[0]
    latest_frame,  \* run_receive: latest_frame[0]
    latest_meta,   \* run_receive: latest_meta[0]
    latencies,     \* the window of latency samples, oldest first
    rpc,        \* run_receive.render_loop: "idle", "run", "sleep", "raised", "exit"
    rendered,   \* what the render loop drew last
    conn,       \* run_connect, run_chat: the connection to the server: "none",
                \* "open", "closed"
    remote_frame,  \* run_chat: remote_frame[0]
    times,  \* run_ping: the round-trip times measured so far
    seq,  \* run_ping: i, the number of the next probe
    stats,  \* run_ping: the statistics printed, or NoStats
    found,  \* run_discover: the entries collected, in order
    zc,  \* run_discover: the Zeroconf handle: "none", "open", "closed"
    scan,  \* run_discover: one-second steps of the scan done so far
    announced,  \* run_discover: the service instances announced during the scan
    summary,  \* run_discover: what was printed at the end, or NoSummary
    cols,  \* width of the terminal area a frame is rendered into
    rows,  \* height of the terminal area a frame is rendered into
    resized,  \* the frame after the resize to the target size: (x, y) -> (R, G, B)
    lines,  \* the lines render_frame_* built, or NoLines before it ran
    source,  \* what main's display loop shows: "test", "screen", "file", "camera", or "none"
    pos,  \* CAP_PROP_POS_FRAMES of a file source
    last_output,  \* number of the frame whose rendering last_output holds, 0 for ""
    ffmpeg_proc,  \* the screen capture process: "none", "running", "killed"
    relay_url,  \* args.relay: [url |-> its characters, hostport |-> its host[:port] part]
    connect_to,  \* args.connect, the characters of the connection target
    viewed,  \* number of the Broadcaster's tick whose frame the Viewer drew last, 0 for none
    keybuf,  \* the key waiting in the terminal's input buffer, "none" when it is empty
    stalled,  \* the peer has stopped sending
    cstack,  \* the cleanup() calls in progress, innermost last: the step each is at
    releases,  \* calls of cap.release() made by cleanup
    exits,  \* times the process has ended
    thermal,       \* the thermal palette is on
    ascii_mode,    \* ascii rendering instead of truecolor
    brightness,    \* the brightness factor, in tenths (10 is 1.0)
    paused,        \* main: the local display is paused
    cam_idx,       \* main: index of the camera in use
    available_cameras   \* main: what detect_cameras found, as <<index, facing>> records

wireVars == <<wPc, wRaw, wMade, wOut>>
envVars == <<backend, cvEmpty, role>>
serveVars == <<test, cap, mdns, session, cause, exitCode, clients, hstate,
               frame_num, bpc, lastTick, outbox, lastMsg, msgs, listening, steps>>
recvVars == <<peers, frame_count, latest_frame, latest_meta, latencies, rpc, rendered>>
clientVars == <<conn, remote_frame>>
restVars == <<term, recvVars, clientVars>>
renderVars == <<thermal, ascii_mode, brightness, paused, cam_idx>>
viewVars == <<renderVars, available_cameras>>
pingVars == <<times, seq, stats>>
discVars == <<found, zc, scan, announced, summary>>
drawVars == <<cols, rows, resized, lines>>
localVars == <<source, pos, last_output, ffmpeg_proc>>
relayVars == <<relay_url, connect_to>>
e2eVars == <<viewed>>
stallVars == <<keybuf, stalled>>
cleanVars == <<cstack, releases, exits>>
sideVars == <<pingVars, discVars, drawVars, localVars, relayVars, e2eVars, stallVars, cleanVars>>
vars == <<envVars, wireVars, serveVars, restVars, viewVars, sideVars>>

----------------------------------------------------------------------------
(* Bounds of the model *)

\* longest source tag handed to make_packet
MaxSrcLen == 1
\* largest frame width and height
MaxDim == 1
\* latest clock reading
MaxTime == 12
\* most characters a truncation cuts off the end of a packet
MaxCut == 11
\* longest message made of arbitrary characters
MaxGarbage == 2
\* most ticks of the broadcast loop
MaxTicks == 2
\* most messages the peers send to the Broadcaster
MaxMsgs == 2

----------------------------------------------------------------------------
(* Python values *)

PyNone == [tag |-> "none", n |-> 0, s |-> <<>>, kv |-> <<>>]
PyInt(k) == [tag |-> "int", n |-> k, s |-> <<>>, kv |-> <<>>]
PyStr(x) == [tag |-> "str", n |-> 0, s |-> x, kv |-> <<>>]
PyDict(pairs) == [tag |-> "dict", n |-> 0, s |-> <<>>, kv |-> pairs]

\* bool(v), as `meta and ...` takes it
Truthy(v) ==
    CASE v.tag = "none" -> FALSE
      [] v.tag = "int" -> v.n # 0
      [] v.tag = "str" -> v.s # <<>>
      [] OTHER -> v.kv # <<>>

\* d.get(key, default) on a dict: the last pair of that key wins
RECURSIVE PairsGet(_, _, _)
PairsGet(kv, key, default) ==
    IF kv = <<>> THEN default
    ELSE LET p == kv[Len(kv)] IN
         IF p.k = key THEN p.v ELSE PairsGet(SubSeq(kv, 1, Len(kv) - 1), key, default)

DictGet(d, key, default) == PairsGet(d.kv, key, default)

\* the strings of the protocol, as character codes
K_type == <<116, 121, 112, 101>>
K_v == <<118>>
K_src == <<115, 114, 99>>
K_w == <<119>>
K_h == <<104>>
K_sz == <<115, 122>>
K_t == <<116>>
K_seq == <<115, 101, 113>>
K_text == <<116, 101, 120, 116>>
S_frame == <<102, 114, 97, 109, 101>>
S_ping == <<112, 105, 110, 103>>
S_chat == <<99, 104, 97, 116>>
\* __version__ = "3.6.0"
Version == <<51, 46, 54, 46, 48>>

----------------------------------------------------------------------------
(* json.dumps / json.loads on the flat objects of the protocol.            *)
(* Characters: 10 newline, 32 space, 34 quote, 44 comma, 58 colon,         *)
(* 92 backslash, 123 and 125 braces, 48..57 digits.                        *)

RECURSIVE Digits(_)
Digits(k) == IF k < 10 THEN <<48 + k>> ELSE Digits(k \div 10) \o <<48 + (k % 10)>>

\* an encoder that leaves control characters as they are
EscapeCharVerbatim(c) ==
    CASE c = 34 -> <<92, 34>>
      [] c = 92 -> <<92, 92>>
      [] OTHER -> <<c>>

EscapeChar(c) ==
    CASE c = 34 -> <<92, 34>>
      [] c = 92 -> <<92, 92>>
      [] c = 10 -> <<92, 110>>
      [] OTHER -> <<c>>

RECURSIVE EscapeStr(_)
EscapeStr(s) == IF s = <<>> THEN <<>> ELSE EscapeChar(Head(s)) \o EscapeStr(Tail(s))

DumpScalar(v) ==
    IF v.tag = "int" THEN Digits(v.n) ELSE <<34>> \o EscapeStr(v.s) \o <<34>>

RECURSIVE DumpPairs(_)
DumpPairs(kv) ==
    IF kv = <<>> THEN <<>>
    ELSE LET p == Head(kv) IN
         <<34>> \o EscapeStr(p.k) \o <<34, 58, 32>> \o DumpScalar(p.v)
         \o (IF Tail(kv) = <<>> THEN <<>> ELSE <<44, 32>> \o DumpPairs(Tail(kv)))

json_dumps(d) == <<123>> \o DumpPairs(d.kv) \o <<125>>

JFail == [ok |-> FALSE, pos |-> 0, val |-> PyNone]
JOk(p, v) == [ok |-> TRUE, pos |-> p, val |-> v]

IsDigit(c) == c >= 48 /\ c <= 57

RECURSIVE SkipWs(_, _)
SkipWs(s, i) == IF i <= Len(s) /\ s[i] = 32 THEN SkipWs(s, i + 1) ELSE i

\* the character an escape \e stands for; 0: no such escape
Unescape(e) ==
    CASE e = 34 -> 34
      [] e = 92 -> 92
      [] e = 47 -> 47
      [] e = 110 -> 10
      [] e = 116 -> 9
      [] e = 114 -> 13
      [] e = 102 -> 12
      [] e = 98 -> 8
      [] OTHER -> 0

\* the rest of a string whose opening quote is before position i
RECURSIVE ScanString(_, _, _)
ScanString(s, i, acc) ==
    IF i > Len(s) THEN JFail
    ELSE IF s[i] = 34 THEN JOk(i + 1, PyStr(acc))
    ELSE IF s[i] = 92 THEN
        IF i + 1 > Len(s) \/ Unescape(s[i + 1]) = 0 THEN JFail
        ELSE ScanString(s, i + 2, Append(acc, Unescape(s[i + 1])))
    ELSE IF s[i] < 32 THEN JFail
    ELSE ScanString(s, i + 1, Append(acc, s[i]))

RECURSIVE ScanDigits(_, _, _)
ScanDigits(s, i, acc) ==
    IF i <= Len(s) /\ IsDigit(s[i]) THEN ScanDigits(s, i + 1, acc * 10 + (s[i] - 48))
    ELSE JOk(i, PyInt(acc))

\* a number: a lone 0, or digits that do not start with 0
ScanNumber(s, i) == IF s[i] = 48 THEN JOk(i + 1, PyInt(0)) ELSE ScanDigits(s, i, 0)

ScanScalar(s, i) ==
    IF i > Len(s) THEN JFail
    ELSE IF s[i] = 34 THEN ScanString(s, i + 1, <<>>)
    ELSE IF IsDigit(s[i]) THEN ScanNumber(s, i)
    ELSE JFail

\* the pairs of an object, a key expected at position i
RECURSIVE ScanPairs(_, _, _)
ScanPairs(s, i, acc) ==
    IF i > Len(s) \/ s[i] # 34 THEN JFail
    ELSE LET k == ScanString(s, i + 1, <<>>) IN
         IF ~k.ok THEN JFail
         ELSE LET c == SkipWs(s, k.pos) IN
              IF c > Len(s) \/ s[c] # 58 THEN JFail
              ELSE LET v == ScanScalar(s, SkipWs(s, c + 1)) IN
                   IF ~v.ok THEN JFail
                   ELSE LET e == SkipWs(s, v.pos)
                            acc2 == Append(acc, [k |-> k.val.s, v |-> v.val])
                        IN  IF e > Len(s) THEN JFail
                            ELSE IF s[e] = 125 THEN JOk(e + 1, PyDict(acc2))
                            ELSE IF s[e] = 44 THEN ScanPairs(s, SkipWs(s, e + 1), acc2)
                            ELSE JFail

ScanObject(s, i) ==
    LET j == SkipWs(s, i + 1) IN
    IF j <= Len(s) /\ s[j] = 125 THEN JOk(j + 1, PyDict(<<>>)) ELSE ScanPairs(s, j, <<>>)

\* json.loads: one value and nothing after it; ok = FALSE is JSONDecodeError
json_loads(s) ==
    LET i == SkipWs(s, 1) IN
    IF i > Len(s) THEN JFail
    ELSE LET r == IF s[i] = 123 THEN ScanObject(s, i) ELSE ScanScalar(s, i) IN
         IF r.ok /\ SkipWs(s, r.pos) = Len(s) + 1 THEN r ELSE JFail

----------------------------------------------------------------------------
(* base64.b64encode / base64.b64decode (binascii.a2b_base64, not strict)   *)

B64Char(v) ==
    IF v < 26 THEN 65 + v
    ELSE IF v < 52 THEN 97 + (v - 26)
    ELSE IF v < 62 THEN 48 + (v - 52)
    ELSE IF v = 62 THEN 43 ELSE 47

\* the value of a character of the alphabet; 64: not of the alphabet
B64Val(c) ==
    IF c >= 65 /\ c <= 90 THEN c - 65
    ELSE IF c >= 97 /\ c <= 122 THEN c - 97 + 26
    ELSE IF c >= 48 /\ c <= 57 THEN c - 48 + 52
    ELSE IF c = 43 THEN 62
    ELSE IF c = 47 THEN 63 ELSE 64

RECURSIVE b64encode(_)
b64encode(b) ==
    IF Len(b) = 0 THEN <<>>
    ELSE IF Len(b) = 1 THEN
        <<B64Char(b[1] \div 4), B64Char((b[1] % 4) * 16), 61, 61>>
    ELSE IF Len(b) = 2 THEN
        <<B64Char(b[1] \div 4), B64Char((b[1] % 4) * 16 + b[2] \div 16),
          B64Char((b[2] % 16) * 4), 61>>
    ELSE <<B64Char(b[1] \div 4), B64Char((b[1] % 4) * 16 + b[2] \div 16),
           B64Char((b[2] % 16) * 4 + b[3] \div 64), B64Char(b[3] % 64)>>
         \o b64encode(SubSeq(b, 4, Len(b)))

\* quad: place in the group of four; left: bits carried over; pads: '=' seen
RECURSIVE A2B(_, _, _, _, _, _)
A2B(s, i, quad, left, pads, out) ==
    IF i > Len(s) THEN
        IF quad # 0 THEN [ok |-> FALSE, b |-> <<>>] ELSE [ok |-> TRUE, b |-> out]
    ELSE IF s[i] = 61 THEN
        IF quad >= 2 /\ quad + pads + 1 >= 4 THEN [ok |-> TRUE, b |-> out]
        ELSE A2B(s, i + 1, quad, left, IF quad >= 2 THEN pads + 1 ELSE pads, out)
    ELSE LET v == B64Val(s[i]) IN
         IF v = 64 THEN A2B(s, i + 1, quad, left, pads, out)
         ELSE CASE quad = 0 -> A2B(s, i + 1, 1, v, 0, out)
                [] quad = 1 -> A2B(s, i + 1, 2, v % 16, 0, Append(out, left * 4 + v \div 16))
                [] quad = 2 -> A2B(s, i + 1, 3, v % 4, 0, Append(out, left * 16 + v \div 4))
                [] OTHER -> A2B(s, i + 1, 0, 0, 0, Append(out, left * 64 + v))

\* ok = FALSE is binascii.Error
b64decode(s) == A2B(s, 1, 0, 0, 0, <<>>)

----------------------------------------------------------------------------
(* Frames and the image codec.  A frame is its shape and whether           *)
(* cv2.imencode can encode it; a JPEG is its two marker bytes, height and  *)
(* width, and the two end bytes.                                           *)

NoFrame == [some |-> FALSE, w |-> 0, h |-> 0, enc |-> FALSE]
Frame(w, h, e) == [some |-> TRUE, w |-> w, h |-> h, enc |-> e]

\* compress_frame: the encoded bytes, or b"" when imencode reports failure
compress_frame(frame) ==
    IF frame.enc THEN <<255, 216, frame.h, frame.w, 255, 217>> ELSE <<>>

\* bytes an image decoder recognises: the markers and the shape are there
HasImageHeader(data) == Len(data) >= 4 /\ data[1] = 255 /\ data[2] = 216

\* decompress_frame (cv2.imdecode): a frame, None, or an error on an empty buffer
decompress_frame(data) ==
    IF data = <<>> THEN [exc |-> cvEmpty = "raise", frame |-> NoFrame]
    ELSE IF HasImageHeader(data) THEN [exc |-> FALSE, frame |-> Frame(data[4], data[3], TRUE)]
    ELSE [exc |-> FALSE, frame |-> NoFrame]

\* decompress_frame_pil (Image.open): an image, or an error
decompress_frame_pil(data) ==
    IF HasImageHeader(data) THEN [exc |-> FALSE, frame |-> Frame(data[4], data[3], TRUE)]
    ELSE [exc |-> TRUE, frame |-> NoFrame]

----------------------------------------------------------------------------
(* The frame protocol *)

\* a message as the socket hands it over: text, or bytes (a binary message)
Text(s) == [bin |-> FALSE, s |-> s]
Bytes(s) == [bin |-> TRUE, s |-> s]

RECURSIVE FindNewline(_, _)
FindNewline(s, i) ==
    IF i > Len(s) THEN 0 ELSE IF s[i] = 10 THEN i ELSE FindNewline(s, i + 1)

\* raw.split("\n", 1)
Split1(s) ==
    LET i == FindNewline(s, 1) IN
    IF i = 0 THEN <<s>> ELSE <<SubSeq(s, 1, i - 1), SubSeq(s, i + 1, Len(s))>>

\* the metadata make_packet writes, with sz as given
FrameMeta(frame, source_name, sz, t) ==
    PyDict(<< [k |-> K_type, v |-> PyStr(S_frame)],
              [k |-> K_v, v |-> PyStr(Version)],
              [k |-> K_src, v |-> PyStr(source_name)],
              [k |-> K_w, v |-> PyInt(frame.w)],
              [k |-> K_h, v |-> PyInt(frame.h)],
              [k |-> K_sz, v |-> PyInt(sz)],
              [k |-> K_t, v |-> PyInt(t)] >>)

\* the packet text: the metadata line, a newline, the payload line
PacketText(meta, jpg) == json_dumps(meta) \o <<10>> \o b64encode(jpg)

make_packet(frame, source_name, t) ==
    LET jpg == compress_frame(frame) IN
    PacketText(FrameMeta(frame, source_name, Len(jpg), t), jpg)

\* the body of parse_packet's try; exc: an exception was raised in it
ParseTry(raw) ==
    IF raw.bin THEN [exc |-> TRUE, meta |-> PyNone, frame |-> NoFrame]
    ELSE LET parts == Split1(raw.s)
             j == json_loads(parts[1])
             meta == j.val
         IN  IF ~j.ok THEN [exc |-> TRUE, meta |-> PyNone, frame |-> NoFrame]
             ELSE IF Len(parts) > 1 /\ meta.tag # "dict"
                  THEN [exc |-> TRUE, meta |-> PyNone, frame |-> NoFrame]
             ELSE IF Len(parts) > 1 /\ DictGet(meta, K_type, PyNone) = PyStr(S_frame) THEN
                  LET jpg == b64decode(parts[2]) IN
                  IF ~jpg.ok THEN [exc |-> TRUE, meta |-> PyNone, frame |-> NoFrame]
                  ELSE IF backend = "cv2" THEN
                      LET d == decompress_frame(jpg.b) IN
                      [exc |-> d.exc, meta |-> meta, frame |-> d.frame]
                  ELSE IF backend = "pil" THEN
                      LET d == decompress_frame_pil(jpg.b) IN
                      [exc |-> d.exc, meta |-> meta, frame |-> d.frame]
                  ELSE [exc |-> FALSE, meta |-> meta, frame |-> NoFrame]
             ELSE [exc |-> FALSE, meta |-> meta, frame |-> NoFrame]

\* what `except Exception` turns an exception of the body into
ExceptReturn(r) == [raised |-> FALSE, meta |-> PyNone, frame |-> NoFrame]

\* parse_packet: (metadata, frame); raised: an exception left the function
parse_packet(raw) ==
    LET r == ParseTry(raw) IN
    IF r.exc THEN ExceptReturn(r)
    ELSE [raised |-> FALSE, meta |-> r.meta, frame |-> r.frame]

----------------------------------------------------------------------------
(* The wire harness: make_packet and parse_packet applied to the messages  *)
(* a peer can send: packets of make_packet, packets whose sz is wrong,     *)
(* control messages, each of them cut short, and arbitrary short strings.  *)

Strs(S, n) == UNION {[1..k -> S] : k \in 0..n}

\* characters of a source tag: a letter, newline, quote, backslash
SrcChars == {97, 10, 34, 92}
SourceNames == Strs(SrcChars, MaxSrcLen)
Frames == {Frame(w, h, e) : w \in 1..MaxDim, h \in 1..MaxDim, e \in BOOLEAN}
Times == {0, 7, MaxTime}
\* characters of an arbitrary message: 5 " a newline { } backslash
GarbageChars == {53, 34, 97, 10, 123, 125, 92}
Garbage == Strs(GarbageChars, MaxGarbage)

\* json.dumps({"type": "ping", "t": t0, "seq": i})
PingText(t, i) ==
    json_dumps(PyDict(<< [k |-> K_type, v |-> PyStr(S_ping)],
                         [k |-> K_t, v |-> PyInt(t)],
                         [k |-> K_seq, v |-> PyInt(i)] >>))

\* the chat message the Broadcaster's handler reads: {"type": "chat", "text": ...}
ChatText(txt) ==
    json_dumps(PyDict(<< [k |-> K_type, v |-> PyStr(S_chat)],
                         [k |-> K_text, v |-> PyStr(txt)] >>))

NoMade == [some |-> FALSE, frame |-> NoFrame, src |-> <<>>, t |-> 0, sz |-> 0, cut |-> FALSE]
NoOut == [raised |-> FALSE, meta |-> PyNone, frame |-> NoFrame]

\* the values a role's variables hold while another role is modelled
Peers == {"A", "B", "C"}
\* a tick: its number, whether it had a frame, the registry it found, the
\* packets it encoded, the peers it sent to, the peers whose send raised, and
\* the most sends it had under way at once
NoTick == [n |-> 0, captured |-> FALSE, reg |-> {}, packets |-> 0, tried |-> {}, dead |-> {},
           inflight |-> 0]
NoMsg == [peer |-> "", raw |-> Text(<<>>)]

\* run_discover has printed no summary
NoSummary == [kind |-> "none", count |-> 0]

\* run_ping has printed no statistics
\* lines before render_frame_* has run
NoLines == <<>>

NoUrl == [url |-> <<>>, hostport |-> <<>>]

NoStats == [count |-> 0, sum |-> 0, over |-> 0, mn |-> 0, mx |-> 0, jitter |-> 0,
            grade |-> ""]

InitWire ==
    /\ backend \in {"cv2", "pil", "none"}
    /\ cvEmpty \in {"raise", "none"}
    /\ role = "none"
    /\ wPc = "idle"
    /\ wRaw = Text(<<>>)
    /\ wMade = NoMade
    /\ wOut = NoOut
    /\ test = FALSE
    /\ cap = "none"
    /\ mdns = "unset"
    /\ session = "INIT"
    /\ cause = "none"
    /\ exitCode = -1
    /\ clients = {}
    /\ hstate = [p \in Peers |-> "new"]
    /\ frame_num = 0
    /\ bpc = "idle"
    /\ lastTick = NoTick
    /\ outbox = <<>>
    /\ lastMsg = NoMsg
    /\ msgs = 0
    /\ listening = FALSE
    /\ steps = <<>>
    /\ term = [mode |-> "cooked", cursor |-> "shown"]
    /\ peers = {}
    /\ frame_count = 0
    /\ latest_frame = NoFrame
    /\ latest_meta = PyDict(<<>>)
    /\ latencies = <<>>
    /\ rpc = "idle"
    /\ rendered = NoFrame
    /\ conn = "none"
    /\ remote_frame = NoFrame
    /\ thermal = FALSE
    /\ ascii_mode = FALSE
    /\ brightness = 10
    /\ paused = FALSE
    /\ times = <<>>
    /\ seq = 0
    /\ stats = NoStats
    /\ found = <<>>
    /\ zc = "none"
    /\ scan = 0
    /\ announced = {}
    /\ summary = NoSummary
    /\ cols = 0
    /\ rows = 0
    /\ resized = <<>>
    /\ lines = NoLines
    /\ source = "none"
    /\ pos = 0
    /\ last_output = 0
    /\ ffmpeg_proc = "none"
    /\ relay_url = NoUrl
    /\ connect_to = <<>>
    /\ viewed = 0
    /\ keybuf = "none"
    /\ stalled = FALSE
    /\ cstack = <<>>
    /\ releases = 0
    /\ exits = 0
    /\ cam_idx = 0
    /\ available_cameras = <<>>

\* make_packet(frame, source_name) at clock reading t (needs cv2)
WMake(frame, source_name, t) ==
    /\ wPc = "idle"
    /\ backend = "cv2"
    /\ wRaw' = Text(make_packet(frame, source_name, t))
    /\ wMade' = [some |-> TRUE, frame |-> frame, src |-> source_name, t |-> t,
                 sz |-> Len(compress_frame(frame)), cut |-> FALSE]
    /\ wPc' = "ready"
    /\ UNCHANGED <<wOut, envVars, sideVars, viewVars, serveVars, restVars>>

\* a sender that declares a payload length its payload does not have
WForge(frame, source_name, t, sz) ==
    /\ wPc = "idle"
    /\ sz # Len(compress_frame(frame))
    /\ wRaw' = Text(PacketText(FrameMeta(frame, source_name, sz, t), compress_frame(frame)))
    /\ wMade' = NoMade
    /\ wPc' = "ready"
    /\ UNCHANGED <<wOut, envVars, sideVars, viewVars, serveVars, restVars>>

\* a ping or a chat message
WControl(s) ==
    /\ wPc = "idle"
    /\ wRaw' = Text(s)
    /\ wMade' = NoMade
    /\ wPc' = "ready"
    /\ UNCHANGED <<wOut, envVars, sideVars, viewVars, serveVars, restVars>>

\* an arbitrary message, text or binary
WGarbage(s, bin) ==
    /\ wPc = "idle"
    /\ wRaw' = [bin |-> bin, s |-> s]
    /\ wMade' = NoMade
    /\ wPc' = "ready"
    /\ UNCHANGED <<wOut, envVars, sideVars, viewVars, serveVars, restVars>>

\* the message loses its last k characters on the way
WTruncate(k) ==
    /\ wPc = "ready"
    /\ ~wMade.cut
    /\ k <= Len(wRaw.s)
    /\ wRaw' = [wRaw EXCEPT !.s = SubSeq(wRaw.s, 1, Len(wRaw.s) - k)]
    /\ wMade' = [wMade EXCEPT !.cut = TRUE]
    /\ UNCHANGED <<wPc, wOut, envVars, sideVars, viewVars, serveVars, restVars>>

WParse ==
    /\ wPc = "ready"
    /\ wOut' = parse_packet(wRaw)
    /\ wPc' = "parsed"
    /\ UNCHANGED <<wRaw, wMade, envVars, sideVars, viewVars, serveVars, restVars>>

WReset ==
    /\ wPc = "parsed"
    /\ wPc' = "idle"
    /\ wRaw' = Text(<<>>)
    /\ wMade' = NoMade
    /\ wOut' = NoOut
    /\ UNCHANGED <<envVars, sideVars, viewVars, serveVars, restVars>>

NextWire ==
    \/ \E f \in Frames, s \in SourceNames, t \in Times : WMake(f, s, t)
    \/ \E f \in Frames, s \in SourceNames, t \in Times, sz \in {0, 7} : WForge(f, s, t, sz)
    \/ \E t \in Times : WControl(PingText(t, 1))
    \/ \E s \in SourceNames : WControl(ChatText(s))
    \/ \E s \in Garbage, b \in BOOLEAN : WGarbage(s, b)
    \/ \E k \in 1..MaxCut : WTruncate(k)
    \/ WParse
    \/ WReset

SpecWire == InitWire /\ [][NextWire]_vars


----------------------------------------------------------------------------
(* The render state and the keys that change it.                           *)

\* the keys a loop can read: those some role knows, and two that none does
Keys == {"q", "Q", "^C", "t", "a", "+", "=", "-", "_", " ", "c", "C", "f", "b", "s",
         "x", "1"}

\* the keys that call cleanup
QuitKeys == {"q", "Q", "^C"}

\* brightness, in tenths: 0.2 and 2.0
MinBrightness == 2
MaxBrightness == 20

\* a step up that stops nowhere
BrighterUnclamped(b) == b + 1

\* min(2.0, brightness + 0.1)
Brighter(b) == IF b + 1 > MaxBrightness THEN MaxBrightness ELSE b + 1

\* max(0.2, brightness - 0.1)
Dimmer(b) == IF b - 1 < MinBrightness THEN MinBrightness ELSE b - 1

\* the render state as the loops hold it
render_state ==
    [thermal |-> thermal, ascii_mode |-> ascii_mode, brightness |-> brightness,
     paused |-> paused, cam_idx |-> cam_idx]

SetRenderState(st) ==
    /\ thermal' = st.thermal
    /\ ascii_mode' = st.ascii_mode
    /\ brightness' = st.brightness
    /\ paused' = st.paused
    /\ cam_idx' = st.cam_idx

\* a key chain in which the ascii key also switches the palette
ViewerKeyCoupled(st, ch) ==
    IF ch = "t" THEN [st EXCEPT !.thermal = ~st.thermal]
    ELSE IF ch = "a" THEN [st EXCEPT !.ascii_mode = ~st.ascii_mode, !.thermal = FALSE]
    ELSE IF ch \in {"+", "="} THEN [st EXCEPT !.brightness = Brighter(st.brightness)]
    ELSE IF ch \in {"-", "_"} THEN [st EXCEPT !.brightness = Dimmer(st.brightness)]
    ELSE st

\* the elif chain of run_connect.viewer and of run_receive.render_loop after
\* the quit keys
ViewerKey(st, ch) ==
    IF ch = "t" THEN [st EXCEPT !.thermal = ~st.thermal]
    ELSE IF ch = "a" THEN [st EXCEPT !.ascii_mode = ~st.ascii_mode]
    ELSE IF ch \in {"+", "="} THEN [st EXCEPT !.brightness = Brighter(st.brightness)]
    ELSE IF ch \in {"-", "_"} THEN [st EXCEPT !.brightness = Dimmer(st.brightness)]
    ELSE st

\* run_chat.render_loop knows the thermal key only
ChatKey(st, ch) ==
    IF ch = "t" THEN [st EXCEPT !.thermal = ~st.thermal] ELSE st

\* indices.index(current_idx), 0 when it is not there (1-based here)
CameraPos(cams, idx) ==
    IF \E i \in DOMAIN cams : cams[i].index = idx
    THEN CHOOSE i \in DOMAIN cams : cams[i].index = idx /\ \A j \in 1..(i - 1) : cams[j].index # idx
    ELSE 1

\* swap_camera's new_cam["index"] with direction = 1; when the new camera does
\* not open, main goes back to the first camera of the list
SwapIndex(cams, idx, opened) ==
    IF opened THEN cams[(CameraPos(cams, idx) % Len(cams)) + 1].index ELSE cams[1].index

\* [c for c in available_cameras if c["facing"] == facing]
Facing(cams, facing) == SelectSeq(cams, LAMBDA c : c.facing = facing)

\* the f and b keys: the first camera of that facing, if it is another one
JumpIndex(cams, idx, facing) ==
    IF Facing(cams, facing) # <<>> /\ Facing(cams, facing)[1].index # idx
    THEN Facing(cams, facing)[1].index
    ELSE idx

\* the elif chain of main's display loop after the quit keys; opened: the
\* camera swapped to could be opened
MainKey(st, ch, cams, opened) ==
    IF ch = "t" THEN [st EXCEPT !.thermal = ~st.thermal]
    ELSE IF ch = "a" THEN [st EXCEPT !.ascii_mode = ~st.ascii_mode]
    ELSE IF ch \in {"+", "="} THEN [st EXCEPT !.brightness = Brighter(st.brightness)]
    ELSE IF ch \in {"-", "_"} THEN [st EXCEPT !.brightness = Dimmer(st.brightness)]
    ELSE IF ch = " " THEN [st EXCEPT !.paused = ~st.paused]
    ELSE IF ch \in {"c", "C"} /\ Len(cams) > 1
        THEN [st EXCEPT !.cam_idx = SwapIndex(cams, st.cam_idx, opened)]
    ELSE IF ch = "f" /\ cams # <<>>
        THEN [st EXCEPT !.cam_idx = JumpIndex(cams, st.cam_idx, "front")]
    ELSE IF ch = "b" /\ cams # <<>>
        THEN [st EXCEPT !.cam_idx = JumpIndex(cams, st.cam_idx, "back")]
    ELSE st

----------------------------------------------------------------------------
(* The Broadcaster: run_serve.  A step is what runs between two            *)
(* suspension points of the event loop.                                    *)

\* the messages a peer sends to the Broadcaster: two pings, a chat line, a frame
\* (a chat client streams its camera), a bare JSON number, a ping cut short,
\* a binary message
HandlerMsgs ==
    { Text(PingText(7, 1)),
      Text(PingText(0, 2)),
      Text(ChatText(<<97>>)),
      Text(make_packet(Frame(1, 1, TRUE), <<97>>, 7)),
      Text(<<53>>),
      Text(SubSeq(PingText(7, 1), 1, Len(PingText(7, 1)) - 1)),
      Bytes(<<255, 216>>) }

InitServe ==
    /\ backend = "cv2"
    /\ cvEmpty = "raise"
    /\ role = "serve"
    /\ wPc = "idle"
    /\ wRaw = Text(<<>>)
    /\ wMade = NoMade
    /\ wOut = NoOut
    /\ test \in BOOLEAN
    /\ cap = "none"
    /\ mdns = "unset"
    /\ session = "INIT"
    /\ cause = "none"
    /\ exitCode = -1
    /\ clients = {}
    /\ hstate = [p \in Peers |-> "new"]
    /\ frame_num = 0
    /\ bpc = "idle"
    /\ lastTick = NoTick
    /\ outbox = <<>>
    /\ lastMsg = NoMsg
    /\ msgs = 0
    /\ listening = FALSE
    /\ steps = <<>>
    /\ term = [mode |-> "cooked", cursor |-> "shown"]
    /\ peers = {}
    /\ frame_count = 0
    /\ latest_frame = NoFrame
    /\ latest_meta = PyDict(<<>>)
    /\ latencies = <<>>
    /\ rpc = "idle"
    /\ rendered = NoFrame
    /\ conn = "none"
    /\ remote_frame = NoFrame
    /\ thermal = FALSE
    /\ ascii_mode = FALSE
    /\ brightness = 10
    /\ paused = FALSE
    /\ times = <<>>
    /\ seq = 0
    /\ stats = NoStats
    /\ found = <<>>
    /\ zc = "none"
    /\ scan = 0
    /\ announced = {}
    /\ summary = NoSummary
    /\ cols = 0
    /\ rows = 0
    /\ resized = <<>>
    /\ lines = NoLines
    /\ source = "none"
    /\ pos = 0
    /\ last_output = 0
    /\ ffmpeg_proc = "none"
    /\ relay_url = NoUrl
    /\ connect_to = <<>>
    /\ viewed = 0
    /\ keybuf = "none"
    /\ stalled = FALSE
    /\ cstack = <<>>
    /\ releases = 0
    /\ exits = 0
    /\ cam_idx = 0
    /\ available_cameras = <<>>

\* cv2.VideoCapture(args.camera), unless --test; a camera that does not open
\* ends the process with status 1
OpenCapture(opened) ==
    /\ session = "INIT"
    /\ cap = "none"
    /\ mdns = "unset"
    /\ IF test THEN
           /\ opened
           /\ mdns' = "pending"
           /\ UNCHANGED <<cap, session, cause, exitCode>>
       ELSE IF opened THEN
           /\ cap' = "open"
           /\ mdns' = "pending"
           /\ UNCHANGED <<session, cause, exitCode>>
       ELSE
           /\ session' = "CLOSED"
           /\ cause' = "camera"
           /\ exitCode' = 1
           /\ UNCHANGED <<cap, mdns>>
    /\ UNCHANGED <<test, clients, hstate, frame_num, bpc, lastTick, outbox,
                   lastMsg, msgs, listening, steps, envVars, sideVars, viewVars, wireVars, restVars>>

\* the mDNS registration in its try/except: zeroconf missing or Zeroconf()
\* failing leaves zc None; register_service failing leaves zc and mdns_info set
RegisterMdns(outcome) ==
    /\ session = "INIT"
    /\ mdns = "pending"
    /\ mdns' = outcome
    /\ session' = "CONNECTING"
    /\ UNCHANGED <<test, cap, cause, exitCode, clients, hstate, frame_num, bpc,
                   lastTick, outbox, lastMsg, msgs, listening, steps, envVars, sideVars, viewVars, wireVars, restVars>>

\* main_serve: websockets.server.serve binds the port, then broadcast_loop starts;
\* "address already in use" is reported and main_serve returns
Bind(bound) ==
    /\ session = "CONNECTING"
    /\ IF bound THEN
           /\ session' = "ACTIVE"
           /\ listening' = TRUE
           /\ bpc' = "top"
           /\ UNCHANGED cause
       ELSE
           /\ session' = "CLOSING"
           /\ cause' = "bind"
           /\ UNCHANGED <<bpc, listening>>
    /\ UNCHANGED <<test, cap, mdns, exitCode, clients, hstate, frame_num,
                   lastTick, outbox, lastMsg, msgs, steps, envVars, sideVars, viewVars, wireVars, restVars>>

\* a finally that leaves the registry as it is
DiscardSkipped(S, p) == S

\* a finally that empties the registry
DiscardAll(S, p) == {}

\* clients.discard(websocket)
Discard(S, p) == S \ {p}

\* handler, up to its first wait for a message: clients.add(websocket)
Accept(p) ==
    /\ session = "ACTIVE"
    /\ hstate[p] = "new"
    /\ clients' = clients \cup {p}
    /\ hstate' = [hstate EXCEPT ![p] = "open"]
    /\ UNCHANGED <<test, cap, mdns, session, cause, exitCode, frame_num, bpc,
                   lastTick, outbox, lastMsg, msgs, listening, steps, envVars, sideVars, viewVars, wireVars, restVars>>

\* what the handler does with the metadata of a message (lines 268-272):
\* "raise" is the AttributeError of meta.get on a value that is no dict
HandlerBranch(meta) ==
    IF ~Truthy(meta) THEN "skip"
    ELSE IF meta.tag # "dict" THEN "raise"
    ELSE IF DictGet(meta, K_type, PyNone) = PyStr(S_ping) THEN "pong"
    ELSE IF DictGet(meta, K_type, PyNone) = PyStr(S_chat) THEN "print"
    ELSE "skip"

\* time.time() on the server when it answers a ping
ServerTimes == {MaxTime}

\* a pong that echoes nothing
PongBlank(p, meta, st) == [to |-> p, type |-> "pong", t |-> PyNone, st |-> st]

\* json.dumps({"type": "pong", "t": meta.get("t"), "st": time.time()}) on its
\* way to peer p
Pong(p, meta, st) == [to |-> p, type |-> "pong", t |-> DictGet(meta, K_t, PyNone), st |-> st]

\* the handler's finally: the peer leaves the registry, the handler is over
HandlerEnds(p, how) ==
    /\ clients' = Discard(clients, p)
    /\ hstate' = [hstate EXCEPT ![p] = how]

\* one turn of `async for msg in websocket`: parse the message, answer a ping,
\* print a chat line.  The pong's send either hands the message to the socket
\* or raises ConnectionClosed, which the handler catches; any other exception
\* leaves the handler through its finally.
Recv(p, raw) ==
    /\ session = "ACTIVE"
    /\ hstate[p] = "open"
    /\ msgs < MaxMsgs
    /\ msgs' = msgs + 1
    /\ lastMsg' = [peer |-> p, raw |-> raw]
    /\ \E r \in {parse_packet(raw)} :
         \E branch \in {IF r.raised THEN "raise" ELSE HandlerBranch(r.meta)} :
           \/ /\ branch = "raise"
              /\ HandlerEnds(p, "failed")
              /\ UNCHANGED outbox
           \/ /\ branch = "pong"
              /\ \E st \in ServerTimes : outbox' = Append(outbox, Pong(p, r.meta, st))
              /\ UNCHANGED <<clients, hstate>>
           \/ /\ branch = "pong"
              /\ HandlerEnds(p, "closed")
              /\ UNCHANGED outbox
           \/ /\ branch \in {"print", "skip"}
              /\ UNCHANGED <<clients, hstate, outbox>>
    /\ UNCHANGED <<test, cap, mdns, session, cause, exitCode, frame_num, bpc,
                   lastTick, listening, steps, envVars, sideVars, viewVars, wireVars, restVars>>

\* the connection ends (the peer closes, the connection breaks, the server
\* closes it at shutdown): the async for stops, or raises ConnectionClosed
Disconnect(p) ==
    /\ session \in {"ACTIVE", "CLOSING"}
    /\ hstate[p] = "open"
    /\ HandlerEnds(p, "closed")
    /\ UNCHANGED <<test, cap, mdns, session, cause, exitCode, frame_num, bpc,
                   lastTick, outbox, lastMsg, msgs, listening, steps, envVars, sideVars, viewVars, wireVars, restVars>>

\* `clients -= dead` (line 301) assigns the name in broadcast_loop, and there
\* is no nonlocal: clients is a local of broadcast_loop, unbound when line 293
\* reads it
ClientsIsLocal == TRUE

\* lines 293-301 as written: one packet, a send to each peer of a copy of the
\* registry, the peers whose send raised collected in dead
FanOut(n, reg, failing) ==
    [n |-> n, captured |-> TRUE, reg |-> reg,
     packets |-> IF reg = {} THEN 0 ELSE 1, tried |-> reg, dead |-> reg \cap failing,
     inflight |-> IF reg = {} THEN 0 ELSE 1]

\* one pass of broadcast_loop's while, to its next suspension point.
\* A failed cap.read() sleeps 0.1 s and goes round again.  With a frame, line
\* 293 raises UnboundLocalError: the exception leaves broadcast_loop and
\* main_serve, and the server closes.
BroadcastTick(ret) ==
    /\ session = "ACTIVE"
    /\ bpc = "top"
    /\ frame_num < MaxTicks
    /\ frame_num' = frame_num + 1
    /\ test => ret
    /\ IF ~ret THEN
           /\ bpc' = "sleep"
           /\ lastTick' = [NoTick EXCEPT !.n = frame_num + 1]
           /\ UNCHANGED <<session, cause, clients, listening>>
       ELSE IF ClientsIsLocal THEN
           /\ bpc' = "raised"
           /\ session' = "CLOSING"
           /\ cause' = "raised"
           /\ listening' = FALSE
           /\ lastTick' = [NoTick EXCEPT !.n = frame_num + 1, !.captured = TRUE,
                                         !.reg = clients]
           /\ UNCHANGED clients
       ELSE
           /\ \E failing \in SUBSET Peers :
                 /\ lastTick' = FanOut(frame_num + 1, clients, failing)
                 /\ clients' = clients \ (clients \cap failing)
           /\ bpc' = "sleep"
           /\ UNCHANGED <<session, cause, listening>>
    /\ UNCHANGED <<test, cap, mdns, exitCode, hstate, outbox,
                   lastMsg, msgs, steps, envVars, sideVars, viewVars, wireVars, restVars>>

\* asyncio.sleep is over
BroadcastWake ==
    /\ session = "ACTIVE"
    /\ bpc = "sleep"
    /\ bpc' = "top"
    /\ UNCHANGED <<test, cap, mdns, session, cause, exitCode, clients, hstate,
                   frame_num, lastTick, outbox, lastMsg, msgs, listening, steps, envVars, sideVars, viewVars, wireVars, restVars>>

\* Ctrl+C: KeyboardInterrupt ends asyncio.run
Interrupt ==
    /\ session = "ACTIVE"
    /\ session' = "CLOSING"
    /\ cause' = "interrupt"
    /\ listening' = FALSE
    /\ UNCHANGED <<test, cap, mdns, exitCode, clients, hstate, frame_num, bpc,
                   lastTick, outbox, lastMsg, msgs, steps, envVars, sideVars, viewVars, wireVars, restVars>>

\* a shutdown that waits for nothing
NoWait == TRUE

\* leaving `async with websockets.server.serve(...)` closes the server and
\* awaits Server.wait_closed(): it returns when every connection handler has
\* returned
wait_closed == \A p \in Peers : hstate[p] # "open"

\* the server is closed and every handler over: run_serve's finally releases
\* the camera and unregisters the service; the process ends with 1 after an
\* exception that nothing caught, with 0 otherwise
Finish ==
    /\ session = "CLOSING"
    /\ wait_closed
    /\ session' = "CLOSED"
    /\ cap' = IF cap = "open" THEN "released" ELSE cap
    /\ mdns' = IF mdns \in {"registered", "failed"} THEN "unregistered" ELSE mdns
    /\ exitCode' = IF cause = "raised" THEN 1 ELSE 0
    /\ steps' = steps \o (IF cause = "bind" THEN <<>> ELSE <<"sockets">>)
                       \o (IF cap = "open" THEN <<"capture">> ELSE <<>>)
                       \o (IF mdns \in {"registered", "failed"} THEN <<"mdns">> ELSE <<>>)
    /\ UNCHANGED <<test, cause, clients, hstate, frame_num, bpc, lastTick,
                   outbox, lastMsg, msgs, listening, envVars, sideVars, viewVars, wireVars, restVars>>

Next ==
    \/ \E opened \in BOOLEAN : OpenCapture(opened)
    \/ \E outcome \in {"none", "registered", "failed"} : RegisterMdns(outcome)
    \/ \E bound \in BOOLEAN : Bind(bound)
    \/ \E p \in Peers : Accept(p)
    \/ \E p \in Peers, raw \in HandlerMsgs : Recv(p, raw)
    \/ \E p \in Peers : Disconnect(p)
    \/ \E ret \in BOOLEAN : BroadcastTick(ret)
    \/ BroadcastWake
    \/ Interrupt
    \/ Finish

Spec == InitServe /\ [][Next]_vars


----------------------------------------------------------------------------
(* The Receiver: run_receive.  Senders connect and push frames; the render *)
(* loop draws the latest one at its own pace.                              *)

\* the senders that connect to the Receiver
Senders == {"A", "B"}

\* a frame packet whose t is a string, a frame packet whose payload is base64
\* of bytes that are no image
BadTimePacket ==
    PacketText(PyDict(<< [k |-> K_type, v |-> PyStr(S_frame)],
                         [k |-> K_t, v |-> PyStr(<<97>>)] >>),
               compress_frame(Frame(1, 1, TRUE)))
CorruptPacket == PacketText(FrameMeta(Frame(1, 1, TRUE), <<97>>, 3, 7), <<1, 2, 3>>)

\* what a sender sends: two frames, the two packets above, a ping, a bare number
ReceiverMsgs ==
    { Text(make_packet(Frame(1, 1, TRUE), <<97>>, 7)),
      Text(make_packet(Frame(2, 1, TRUE), <<97>>, 0)),
      Text(BadTimePacket),
      Text(CorruptPacket),
      Text(PingText(7, 1)),
      Text(<<53>>) }

\* the most samples the window holds
LatencyWindow == 60

\* time.time() - meta.get("t", 0), in the clock's unit
Latency(meta, now) == now - DictGet(meta, K_t, PyInt(0)).n

\* a window that only grows
PushUnbounded(win, lat) == Append(win, lat)

\* latencies.append(lat); if len(latencies) > 60: latencies.pop(0)
PushLatency(win, lat) ==
    IF Len(Append(win, lat)) > LatencyWindow THEN Tail(Append(win, lat)) ELSE Append(win, lat)

InitReceive ==
    /\ backend \in {"cv2", "pil"}
    /\ cvEmpty = "raise"
    /\ role = "receive"
    /\ wPc = "idle"
    /\ wRaw = Text(<<>>)
    /\ wMade = NoMade
    /\ wOut = NoOut
    /\ test = FALSE
    /\ cap = "none"
    /\ mdns = "pending"
    /\ session = "INIT"
    /\ cause = "none"
    /\ exitCode = -1
    /\ clients = {}
    /\ hstate = [p \in Peers |-> "new"]
    /\ frame_num = 0
    /\ bpc = "idle"
    /\ lastTick = NoTick
    /\ outbox = <<>>
    /\ lastMsg = NoMsg
    /\ msgs = 0
    /\ listening = FALSE
    /\ steps = <<>>
    /\ term = [mode |-> "cooked", cursor |-> "shown"]
    /\ peers = {}
    /\ frame_count = 0
    /\ latest_frame = NoFrame
    /\ latest_meta = PyDict(<<>>)
    /\ latencies = <<>>
    /\ rpc = "idle"
    /\ rendered = NoFrame
    /\ conn = "none"
    /\ remote_frame = NoFrame
    /\ thermal = FALSE
    /\ ascii_mode = FALSE
    /\ brightness = 10
    /\ paused = FALSE
    /\ times = <<>>
    /\ seq = 0
    /\ stats = NoStats
    /\ found = <<>>
    /\ zc = "none"
    /\ scan = 0
    /\ announced = {}
    /\ summary = NoSummary
    /\ cols = 0
    /\ rows = 0
    /\ resized = <<>>
    /\ lines = NoLines
    /\ source = "none"
    /\ pos = 0
    /\ last_output = 0
    /\ ffmpeg_proc = "none"
    /\ relay_url = NoUrl
    /\ connect_to = <<>>
    /\ viewed = 0
    /\ keybuf = "none"
    /\ stalled = FALSE
    /\ cstack = <<>>
    /\ releases = 0
    /\ exits = 0
    /\ cam_idx = 0
    /\ available_cameras = <<>>

\* old_settings = termios.tcgetattr(sys.stdin), taken before anything changes
\* the terminal
old_settings == [mode |-> "cooked", cursor |-> "shown"]

\* the Receiver's mDNS registration, as the Broadcaster's
RRegisterMdns(outcome) ==
    /\ session = "INIT"
    /\ mdns = "pending"
    /\ mdns' = outcome
    /\ session' = "CONNECTING"
    /\ UNCHANGED <<test, cap, cause, exitCode, clients, hstate, frame_num, bpc, lastTick,
                   outbox, lastMsg, msgs, listening, steps, term, recvVars, envVars, sideVars, viewVars, wireVars, clientVars>>

\* main_receive: the server binds and render_loop starts (cbreak mode, cursor
\* hidden); "address already in use" shows the cursor, prints the port and
\* the remedies, and main_receive returns: run_receive returns, status 0
RBind(bound) ==
    /\ session = "CONNECTING"
    /\ IF bound THEN
           /\ session' = "ACTIVE"
           /\ listening' = TRUE
           /\ term' = [mode |-> "cbreak", cursor |-> "hidden"]
           /\ rpc' = "run"
           /\ UNCHANGED <<cause, exitCode>>
       ELSE
           /\ session' = "CLOSED"
           /\ cause' = "bind"
           /\ exitCode' = 0
           /\ term' = [term EXCEPT !.cursor = "shown"]
           /\ UNCHANGED <<listening, rpc>>
    /\ UNCHANGED <<test, cap, mdns, clients, hstate, frame_num, bpc, lastTick, outbox,
                   lastMsg, msgs, steps, peers, frame_count, latest_frame, latest_meta,
                   latencies, rendered, envVars, sideVars, viewVars, wireVars, clientVars>>

\* handler, up to its first wait for a message: peers.add(remote)
RAccept(p) ==
    /\ session = "ACTIVE"
    /\ hstate[p] = "new"
    /\ peers' = peers \cup {p}
    /\ hstate' = [hstate EXCEPT ![p] = "open"]
    /\ UNCHANGED <<test, cap, mdns, session, cause, exitCode, clients, frame_num, bpc,
                   lastTick, outbox, lastMsg, msgs, listening, steps, term, frame_count,
                   latest_frame, latest_meta, latencies, rpc, rendered, envVars, sideVars, viewVars, wireVars, clientVars>>

\* the finally of the Receiver's handler: peers.discard(remote)
RHandlerEnds(p, how) ==
    /\ peers' = Discard(peers, p)
    /\ hstate' = [hstate EXCEPT ![p] = how]


\* a slot that keeps the first frame it was given
StoreFirst(cur, r) ==
    IF r.frame.some /\ ~cur.frame.some
    THEN [frame |-> r.frame, meta |-> r.meta, count |-> cur.count + 1]
    ELSE cur

\* lines 834-837: a decoded frame replaces latest_frame[0] and latest_meta[0]
\* and is counted
StoreFrame(cur, r) ==
    IF r.frame.some
    THEN [frame |-> r.frame, meta |-> r.meta, count |-> cur.count + 1]
    ELSE cur

\* what the Receiver's handler does after that (lines 838-843): "latency"
\* appends to latencies, "raise" is the TypeError of time.time() - t on a t
\* that is no number, or the AttributeError of meta.get on a value that is no
\* dict
ReceiverBranch(r) ==
    IF r.frame.some THEN
        IF DictGet(r.meta, K_t, PyInt(0)).tag = "int" THEN "latency" ELSE "raise"
    ELSE IF ~Truthy(r.meta) THEN "skip"
    ELSE IF r.meta.tag # "dict" THEN "raise"
    ELSE IF DictGet(r.meta, K_type, PyNone) = PyStr(S_ping) THEN "pong"
    ELSE "skip"

\* one turn of the handler's `async for msg in websocket`.  Every exception
\* ends the handler (except Exception: pass), through its finally.
RRecv(p, raw) ==
    /\ session = "ACTIVE"
    /\ hstate[p] = "open"
    /\ msgs < MaxMsgs
    /\ msgs' = msgs + 1
    /\ lastMsg' = [peer |-> p, raw |-> raw]
    /\ \E r \in {parse_packet(raw)} :
         \E slot \in {StoreFrame([frame |-> latest_frame, meta |-> latest_meta,
                                  count |-> frame_count], r)} :
         \E branch \in {ReceiverBranch(r)} :
           /\ latest_frame' = slot.frame
           /\ latest_meta' = slot.meta
           /\ frame_count' = slot.count
           /\ \/ /\ branch = "latency"
                 /\ latencies' = PushLatency(latencies, Latency(r.meta, MaxTime))
                 /\ UNCHANGED <<peers, hstate, outbox>>
              \/ /\ branch = "raise"
                 /\ RHandlerEnds(p, "failed")
                 /\ UNCHANGED <<latencies, outbox>>
              \/ /\ branch = "pong"
                 /\ \E st \in ServerTimes : outbox' = Append(outbox, Pong(p, r.meta, st))
                 /\ UNCHANGED <<peers, hstate, latencies>>
              \/ /\ branch = "pong"
                 /\ RHandlerEnds(p, "closed")
                 /\ UNCHANGED <<latencies, outbox>>
              \/ /\ branch = "skip"
                 /\ UNCHANGED <<peers, hstate, latencies, outbox>>
    /\ UNCHANGED <<test, cap, mdns, session, cause, exitCode, clients, frame_num, bpc,
                   lastTick, listening, steps, term, rpc, rendered, envVars, sideVars, viewVars, wireVars, clientVars>>

\* a sender's connection ends (the sender closes, the connection breaks, the
\* server closes it at shutdown)
RDisconnect(p) ==
    /\ session \in {"ACTIVE", "CLOSING"}
    /\ hstate[p] = "open"
    /\ RHandlerEnds(p, "closed")
    /\ UNCHANGED <<test, cap, mdns, session, cause, exitCode, clients, frame_num, bpc,
                   lastTick, outbox, lastMsg, msgs, listening, steps, term, frame_count,
                   latest_frame, latest_meta, latencies, rpc, rendered, envVars, sideVars, viewVars, wireVars, clientVars>>

\* run_receive.cleanup up to its sys.exit(0): the terminal gets old_settings
\* back and its cursor, the service is unregistered
RCleanupSteps ==
    <<"terminal">> \o (IF mdns \in {"registered", "failed"} THEN <<"mdns">> ELSE <<>>)

\* one pass of render_loop's while, to its sleep.  key: what kbhit/getch give
\* ("none": no key; "t": a key that changes how frames are drawn); a quit key
\* calls cleanup, whose SystemExit leaves the loop and closes the server.
\* drawn: the frame was drawn; an exception of the drawing code (a terminal
\* too small to resize to, an image that cannot be read) leaves render_loop,
\* main_receive re-raises it, and nothing calls cleanup.
RenderTick(key, drawn) ==
    /\ session = "ACTIVE"
    /\ rpc = "run"
    /\ SetRenderState(IF key \in QuitKeys THEN render_state ELSE ViewerKey(render_state, key))
    /\ IF key \in QuitKeys THEN
           /\ term' = old_settings
           /\ steps' = steps \o RCleanupSteps
           /\ mdns' = IF mdns \in {"registered", "failed"} THEN "unregistered" ELSE mdns
           /\ session' = "CLOSING"
           /\ cause' = "quit"
           /\ listening' = FALSE
           /\ rpc' = "exit"
           /\ UNCHANGED rendered
       ELSE IF latest_frame.some /\ ~drawn THEN
           /\ session' = "CLOSING"
           /\ cause' = "raised"
           /\ listening' = FALSE
           /\ rpc' = "raised"
           /\ UNCHANGED <<term, steps, mdns, rendered>>
       ELSE
           /\ rendered' = latest_frame
           /\ rpc' = "sleep"
           /\ UNCHANGED <<term, steps, mdns, session, cause, listening>>
    /\ UNCHANGED <<test, cap, exitCode, clients, hstate, frame_num, bpc, lastTick, outbox,
                   lastMsg, msgs, peers, frame_count, latest_frame, latest_meta, latencies,
                   envVars, sideVars, available_cameras, wireVars, clientVars>>

\* a sleep that never returns
SleepForever == FALSE

\* asyncio.sleep(1.0 / 30) is over
RenderWake ==
    /\ session = "ACTIVE"
    /\ rpc = "sleep"
    /\ rpc' = "run"
    /\ UNCHANGED <<test, cap, mdns, session, cause, exitCode, clients, hstate, frame_num,
                   bpc, lastTick, outbox, lastMsg, msgs, listening, steps, term, peers,
                   frame_count, latest_frame, latest_meta, latencies, rendered,
                   envVars, sideVars, viewVars, wireVars, clientVars>>

\* SIGINT or SIGTERM: the signal handler is cleanup
RInterrupt ==
    /\ session = "ACTIVE"
    /\ term' = old_settings
    /\ steps' = steps \o RCleanupSteps
    /\ mdns' = IF mdns \in {"registered", "failed"} THEN "unregistered" ELSE mdns
    /\ session' = "CLOSING"
    /\ cause' = "interrupt"
    /\ listening' = FALSE
    /\ rpc' = "exit"
    /\ UNCHANGED <<test, cap, exitCode, clients, hstate, frame_num, bpc, lastTick, outbox,
                   lastMsg, msgs, peers, frame_count, latest_frame, latest_meta, latencies,
                   rendered, envVars, sideVars, viewVars, wireVars, clientVars>>

\* the server has closed every connection and every handler is over: the
\* process ends, with 0 after cleanup's sys.exit(0), with 1 after an exception
RFinish ==
    /\ session = "CLOSING"
    /\ wait_closed
    /\ session' = "CLOSED"
    /\ steps' = Append(steps, "sockets")
    /\ exitCode' = IF cause = "raised" THEN 1 ELSE 0
    /\ UNCHANGED <<test, cap, mdns, cause, clients, hstate, frame_num, bpc, lastTick,
                   outbox, lastMsg, msgs, listening, term, recvVars, envVars, sideVars, viewVars, wireVars, clientVars>>

NextReceive ==
    \/ \E outcome \in {"none", "registered", "failed"} : RRegisterMdns(outcome)
    \/ \E bound \in BOOLEAN : RBind(bound)
    \/ \E p \in Senders : RAccept(p)
    \/ \E p \in Senders, raw \in ReceiverMsgs : RRecv(p, raw)
    \/ \E p \in Senders : RDisconnect(p)
    \/ \E key \in {"none", "t", "q"}, drawn \in BOOLEAN : RenderTick(key, drawn)
    \/ RenderWake
    \/ RInterrupt
    \/ RFinish

SpecReceive == InitReceive /\ [][NextReceive]_vars

\* the event loop runs every ready task in turn: render_loop gets its pass
\* whenever it is ready, and its sleep returns, whatever the handlers do
SpecReceiveFair ==
    /\ SpecReceive
    /\ WF_vars(\E key \in {"none", "t", "q"}, drawn \in BOOLEAN : RenderTick(key, drawn))
    /\ WF_vars(RenderWake)

----------------------------------------------------------------------------
(* The two roles that listen, side by side: a process runs one of them.    *)

InitServers == InitServe \/ InitReceive

NextServers ==
    \/ role = "serve" /\ Next
    \/ role = "receive" /\ NextReceive

SpecServers == InitServers /\ [][NextServers]_vars


----------------------------------------------------------------------------
(* The Viewer: run_connect.                                                *)

\* what the server sends: two frames, a frame whose t is a string, a frame
\* whose payload is no image, a bare number
ViewerMsgs ==
    { Text(make_packet(Frame(1, 1, TRUE), <<97>>, 7)),
      Text(make_packet(Frame(2, 1, TRUE), <<97>>, 0)),
      Text(BadTimePacket),
      Text(CorruptPacket),
      Text(<<53>>) }

InitConnect ==
    /\ backend \in {"cv2", "pil"}
    /\ cvEmpty = "raise"
    /\ role = "connect"
    /\ wPc = "idle"
    /\ wRaw = Text(<<>>)
    /\ wMade = NoMade
    /\ wOut = NoOut
    /\ test = FALSE
    /\ cap = "none"
    /\ mdns = "unset"
    /\ session = "INIT"
    /\ cause = "none"
    /\ exitCode = -1
    /\ clients = {}
    /\ hstate = [p \in Peers |-> "new"]
    /\ frame_num = 0
    /\ bpc = "idle"
    /\ lastTick = NoTick
    /\ outbox = <<>>
    /\ lastMsg = NoMsg
    /\ msgs = 0
    /\ listening = FALSE
    /\ steps = <<>>
    /\ term = [mode |-> "cooked", cursor |-> "shown"]
    /\ peers = {}
    /\ frame_count = 0
    /\ latest_frame = NoFrame
    /\ latest_meta = PyDict(<<>>)
    /\ latencies = <<>>
    /\ rpc = "idle"
    /\ rendered = NoFrame
    /\ conn = "none"
    /\ remote_frame = NoFrame
    /\ thermal = FALSE
    /\ ascii_mode = FALSE
    /\ brightness = 10
    /\ paused = FALSE
    /\ times = <<>>
    /\ seq = 0
    /\ stats = NoStats
    /\ found = <<>>
    /\ zc = "none"
    /\ scan = 0
    /\ announced = {}
    /\ summary = NoSummary
    /\ cols = 0
    /\ rows = 0
    /\ resized = <<>>
    /\ lines = NoLines
    /\ source = "none"
    /\ pos = 0
    /\ last_output = 0
    /\ ffmpeg_proc = "none"
    /\ relay_url = NoUrl
    /\ connect_to = <<>>
    /\ viewed = 0
    /\ keybuf = "none"
    /\ stalled = FALSE
    /\ cstack = <<>>
    /\ releases = 0
    /\ exits = 0
    /\ cam_idx = 0
    /\ available_cameras = <<>>

\* what the Viewer leaves unchanged whatever it does
viewerIdle == <<test, cap, mdns, clients, hstate, frame_num, bpc, lastTick, outbox,
                listening, peers, latest_frame, latest_meta, rpc, remote_frame,
                envVars, sideVars, available_cameras, wireVars>>

\* viewer() up to the connect: cbreak mode, cursor hidden
VStart ==
    /\ session = "INIT"
    /\ session' = "CONNECTING"
    /\ term' = [mode |-> "cbreak", cursor |-> "hidden"]
    /\ UNCHANGED <<cause, exitCode, steps, conn, frame_count, latencies, rendered,
                   lastMsg, msgs, renderVars, viewerIdle>>

\* run_connect.cleanup (quit key, SIGINT): the terminal gets old_settings and
\* its cursor back, sys.exit(0); the connection closes as the exit unwinds
VCleanup(why) ==
    /\ term' = old_settings
    /\ steps' = steps \o <<"terminal">> \o (IF conn = "open" THEN <<"sockets">> ELSE <<>>)
    /\ conn' = IF conn = "open" THEN "closed" ELSE conn
    /\ session' = "CLOSED"
    /\ cause' = why
    /\ exitCode' = 0

\* the except Exception of viewer(): the connection is closed by then; the
\* terminal gets old_settings and its cursor back, sys.exit(1)
VFails(why) ==
    /\ term' = old_settings
    /\ steps' = steps \o (IF conn = "open" THEN <<"sockets">> ELSE <<>>) \o <<"terminal">>
    /\ conn' = IF conn = "open" THEN "closed" ELSE conn
    /\ session' = "CLOSED"
    /\ cause' = why
    /\ exitCode' = 1

\* websockets.connect(uri): connected, or an error
VConnect(ok) ==
    /\ session = "CONNECTING"
    /\ IF ok THEN
           /\ session' = "ACTIVE"
           /\ conn' = "open"
           /\ UNCHANGED <<term, steps, cause, exitCode>>
       ELSE VFails("connect")
    /\ UNCHANGED <<frame_count, latencies, rendered, lastMsg, msgs, renderVars, viewerIdle>>

\* what the loop body does with a parsed message (lines 393-440): nothing
\* without a frame; "raise" is the TypeError of time.time() - t
ViewerBranch(r) ==
    IF ~r.frame.some THEN "skip"
    ELSE IF DictGet(r.meta, K_t, PyInt(0)).tag = "int" THEN "draw" ELSE "raise"

\* one turn of `async for msg in ws`: a frame is counted, its latency noted,
\* a key read if there is one, the frame drawn
VRecv(raw, key, drawn) ==
    /\ session = "ACTIVE"
    /\ msgs < MaxMsgs
    /\ msgs' = msgs + 1
    /\ lastMsg' = [peer |-> "server", raw |-> raw]
    /\ \E r \in {parse_packet(raw)} :
         \E branch \in {ViewerBranch(r)} :
           /\ SetRenderState(IF branch = "draw" /\ key \notin QuitKeys
                             THEN ViewerKey(render_state, key) ELSE render_state)
           /\ \/ /\ branch = "skip"
                 /\ key = "none" /\ drawn
                 /\ UNCHANGED <<frame_count, latencies, rendered, term, steps, conn,
                                session, cause, exitCode>>
              \/ /\ branch = "raise"
                 /\ key = "none" /\ drawn
                 /\ frame_count' = frame_count + 1
                 /\ VFails("raised")
                 /\ UNCHANGED <<latencies, rendered>>
              \/ /\ branch = "draw"
                 /\ frame_count' = frame_count + 1
                 /\ latencies' = PushLatency(latencies, Latency(r.meta, MaxTime))
                 /\ IF key \in QuitKeys THEN
                        /\ drawn
                        /\ VCleanup("quit")
                        /\ UNCHANGED rendered
                    ELSE IF ~drawn THEN
                        /\ VFails("raised")
                        /\ UNCHANGED rendered
                    ELSE
                        /\ rendered' = r.frame
                        /\ UNCHANGED <<term, steps, conn, session, cause, exitCode>>
    /\ UNCHANGED viewerIdle

\* the connection ends.  clean: the server closed it (ConnectionClosedOK):
\* the async for is over, viewer() returns and run_connect with it.
\* Otherwise ConnectionClosedError is raised in the loop.
VClosed(clean) ==
    /\ session = "ACTIVE"
    /\ IF clean THEN
           /\ conn' = "closed"
           /\ steps' = Append(steps, "sockets")
           /\ session' = "CLOSED"
           /\ cause' = "closed"
           /\ exitCode' = 0
           /\ UNCHANGED term
       ELSE VFails("error")
    /\ UNCHANGED <<frame_count, latencies, rendered, lastMsg, msgs, renderVars, viewerIdle>>

\* SIGINT: the signal handler is cleanup
VInterrupt ==
    /\ session \in {"CONNECTING", "ACTIVE"}
    /\ VCleanup("interrupt")
    /\ UNCHANGED <<frame_count, latencies, rendered, lastMsg, msgs, renderVars, viewerIdle>>

NextConnect ==
    \/ VStart
    \/ \E ok \in BOOLEAN : VConnect(ok)
    \/ \E raw \in ViewerMsgs, key \in {"none", "t", "q"}, drawn \in BOOLEAN :
          VRecv(raw, key, drawn)
    \/ \E clean \in BOOLEAN : VClosed(clean)
    \/ VInterrupt

SpecConnect == InitConnect /\ [][NextConnect]_vars


----------------------------------------------------------------------------
(* The Bidirectional role: run_chat.  One connection, three loops gathered *)
(* on it; frame_count is <<sent, received>>.                               *)

\* f"chat:{socket.gethostname()}" for a host named "h"
ChatSource == <<99, 104, 97, 116, 58, 104>>

InitChat ==
    /\ backend = "cv2"
    /\ cvEmpty = "raise"
    /\ role = "chat"
    /\ wPc = "idle"
    /\ wRaw = Text(<<>>)
    /\ wMade = NoMade
    /\ wOut = NoOut
    /\ test = FALSE
    /\ cap = "none"
    /\ mdns = "unset"
    /\ session = "INIT"
    /\ cause = "none"
    /\ exitCode = -1
    /\ clients = {}
    /\ hstate = [p \in Peers |-> "new"]
    /\ frame_num = 0
    /\ bpc = "idle"
    /\ lastTick = NoTick
    /\ outbox = <<>>
    /\ lastMsg = NoMsg
    /\ msgs = 0
    /\ listening = FALSE
    /\ steps = <<>>
    /\ term = [mode |-> "cooked", cursor |-> "shown"]
    /\ peers = {}
    /\ frame_count = <<0, 0>>
    /\ latest_frame = NoFrame
    /\ latest_meta = PyDict(<<>>)
    /\ latencies = <<>>
    /\ rpc = "idle"
    /\ rendered = NoFrame
    /\ conn = "none"
    /\ remote_frame = NoFrame
    /\ thermal = FALSE
    /\ ascii_mode = FALSE
    /\ brightness = 10
    /\ paused = FALSE
    /\ times = <<>>
    /\ seq = 0
    /\ stats = NoStats
    /\ found = <<>>
    /\ zc = "none"
    /\ scan = 0
    /\ announced = {}
    /\ summary = NoSummary
    /\ cols = 0
    /\ rows = 0
    /\ resized = <<>>
    /\ lines = NoLines
    /\ source = "none"
    /\ pos = 0
    /\ last_output = 0
    /\ ffmpeg_proc = "none"
    /\ relay_url = NoUrl
    /\ connect_to = <<>>
    /\ viewed = 0
    /\ keybuf = "none"
    /\ stalled = FALSE
    /\ cstack = <<>>
    /\ releases = 0
    /\ exits = 0
    /\ cam_idx = 0
    /\ available_cameras = <<>>

\* what the Bidirectional role leaves unchanged whatever it does
chatIdle == <<test, mdns, clients, hstate, frame_num, bpc, lastTick, listening, peers,
              latest_frame, latest_meta, rpc, envVars, sideVars, available_cameras, wireVars>>

\* frame_count[0] += 1, in send_loop
Sent(fc) == <<fc[1] + 1, fc[2]>>

\* a receive loop that counts on both sides
ReceivedBoth(fc) == <<fc[1] + 1, fc[2] + 1>>

\* frame_count[1] += 1, in recv_loop
Received(fc) == <<fc[1], fc[2] + 1>>

\* lines 478-508: the camera is opened (exit 1 if it cannot be), the terminal
\* settings are saved, chat_session puts the terminal in cbreak mode and hides
\* the cursor
CStart(opened) ==
    /\ session = "INIT"
    /\ IF opened THEN
           /\ cap' = "open"
           /\ session' = "CONNECTING"
           /\ term' = [mode |-> "cbreak", cursor |-> "hidden"]
           /\ UNCHANGED <<cause, exitCode>>
       ELSE
           /\ session' = "CLOSED"
           /\ cause' = "camera"
           /\ exitCode' = 1
           /\ UNCHANGED <<cap, term>>
    /\ UNCHANGED <<steps, conn, remote_frame, frame_count, latencies, rendered, outbox,
                   lastMsg, msgs, renderVars, chatIdle>>

\* run_chat.cleanup (quit key, SIGINT), in its order: the terminal gets
\* old_settings and its cursor back, cap.release(), sys.exit(0); the exit
\* unwinds chat_session: the connection is closed, the loops are cancelled
CCleanup(why) ==
    /\ term' = old_settings
    /\ cap' = "released"
    /\ steps' = steps \o <<"terminal", "capture">>
                      \o (IF conn # "none" THEN <<"sockets", "tasks">> ELSE <<>>)
    /\ conn' = IF conn = "open" THEN "closed" ELSE conn
    /\ session' = "CLOSED"
    /\ cause' = why
    /\ exitCode' = 0

\* the except Exception of chat_session: the async with has closed the
\* connection; the terminal gets old_settings and its cursor back,
\* sys.exit(1), which cancels the loops that still run.  cap is not touched.
CFails(why) ==
    /\ term' = old_settings
    /\ steps' = steps \o (IF conn # "none" THEN <<"sockets">> ELSE <<>>) \o <<"terminal">>
                      \o (IF conn # "none" THEN <<"tasks">> ELSE <<>>)
    /\ conn' = IF conn = "open" THEN "closed" ELSE conn
    /\ session' = "CLOSED"
    /\ cause' = why
    /\ exitCode' = 1
    /\ UNCHANGED cap

\* websockets.connect(uri): connected, or an error
CConnect(ok) ==
    /\ session = "CONNECTING"
    /\ IF ok THEN
           /\ session' = "ACTIVE"
           /\ conn' = "open"
           /\ UNCHANGED <<term, steps, cause, exitCode, cap>>
       ELSE CFails("connect")
    /\ UNCHANGED <<remote_frame, frame_count, latencies, rendered, outbox, lastMsg, msgs,
                   renderVars, chatIdle>>

\* one turn of send_loop: cap.read(); a frame read is packed and sent.  The
\* send raises when the connection is closed or breaks.
CSend(captured, t, sent) ==
    /\ session = "ACTIVE"
    /\ frame_count[1] < MaxTicks
    /\ IF ~captured THEN
           /\ sent
           /\ UNCHANGED <<outbox, frame_count, term, steps, conn, session, cause,
                          exitCode, cap>>
       ELSE IF sent /\ conn = "open" THEN
           /\ outbox' = Append(outbox, [to |-> "server", type |-> "frame",
                                        raw |-> Text(make_packet(Frame(1, 1, FALSE),
                                                                 ChatSource, t))])
           /\ frame_count' = Sent(frame_count)
           /\ UNCHANGED <<term, steps, conn, session, cause, exitCode, cap>>
       ELSE
           /\ CFails("send")
           /\ UNCHANGED <<outbox, frame_count>>
    /\ UNCHANGED <<remote_frame, latencies, rendered, lastMsg, msgs, renderVars, chatIdle>>

\* one turn of recv_loop's `async for msg in ws`
CRecv(raw) ==
    /\ session = "ACTIVE"
    /\ conn = "open"
    /\ msgs < MaxMsgs
    /\ msgs' = msgs + 1
    /\ lastMsg' = [peer |-> "server", raw |-> raw]
    /\ \E r \in {parse_packet(raw)} :
         \E branch \in {ViewerBranch(r)} :
           \/ /\ branch = "skip"
              /\ UNCHANGED <<remote_frame, frame_count, latencies, term, steps, conn,
                             session, cause, exitCode, cap>>
           \/ /\ branch = "raise"
              /\ remote_frame' = r.frame
              /\ frame_count' = Received(frame_count)
              /\ CFails("raised")
              /\ UNCHANGED latencies
           \/ /\ branch = "draw"
              /\ remote_frame' = r.frame
              /\ frame_count' = Received(frame_count)
              /\ latencies' = PushLatency(latencies, Latency(r.meta, MaxTime))
              /\ UNCHANGED <<term, steps, conn, session, cause, exitCode, cap>>
    /\ UNCHANGED <<rendered, outbox, renderVars, chatIdle>>

\* the connection ends.  clean: the peer closed it: recv_loop is over, the
\* other two loops go on, and the next send raises.  Otherwise recv_loop
\* raises ConnectionClosedError.
CClosed(clean) ==
    /\ session = "ACTIVE"
    /\ conn = "open"
    /\ IF clean THEN
           /\ conn' = "closed"
           /\ UNCHANGED <<term, steps, session, cause, exitCode, cap>>
       ELSE CFails("error")
    /\ UNCHANGED <<remote_frame, frame_count, latencies, rendered, outbox, lastMsg, msgs,
                   renderVars, chatIdle>>

\* one pass of render_loop's while: a quit key calls cleanup; the two halves
\* are drawn, or drawing raises
CRender(key, drawn) ==
    /\ session = "ACTIVE"
    /\ SetRenderState(IF key \in QuitKeys THEN render_state ELSE ChatKey(render_state, key))
    /\ IF key \in QuitKeys THEN
           /\ drawn
           /\ CCleanup("quit")
           /\ UNCHANGED rendered
       ELSE IF ~drawn THEN
           /\ CFails("raised")
           /\ UNCHANGED rendered
       ELSE
           /\ rendered' = remote_frame
           /\ UNCHANGED <<term, steps, conn, session, cause, exitCode, cap>>
    /\ UNCHANGED <<remote_frame, frame_count, latencies, outbox, lastMsg, msgs, chatIdle>>

\* SIGINT: the signal handler is cleanup
CInterrupt ==
    /\ session \in {"CONNECTING", "ACTIVE"}
    /\ CCleanup("interrupt")
    /\ UNCHANGED <<remote_frame, frame_count, latencies, rendered, outbox, lastMsg, msgs,
                   renderVars, chatIdle>>

NextChat ==
    \/ \E opened \in BOOLEAN : CStart(opened)
    \/ \E ok \in BOOLEAN : CConnect(ok)
    \/ \E captured \in BOOLEAN, t \in {7}, sent \in BOOLEAN : CSend(captured, t, sent)
    \/ \E raw \in ViewerMsgs : CRecv(raw)
    \/ \E clean \in BOOLEAN : CClosed(clean)
    \/ \E key \in {"none", "t", "q"}, drawn \in BOOLEAN : CRender(key, drawn)
    \/ CInterrupt

SpecChat == InitChat /\ [][NextChat]_vars


----------------------------------------------------------------------------
(* The latency probe: run_ping.                                            *)

\* count = 10
ProbeCount == 10

\* largest round-trip time of a probe, in ms
MaxRtt == 2

RECURSIVE SumSeq(_)
SumSeq(q) == IF q = <<>> THEN 0 ELSE q[1] + SumSeq(Tail(q))

SeqMin(q) == CHOOSE x \in {q[i] : i \in DOMAIN q} : \A i \in DOMAIN q : x <= q[i]
SeqMax(q) == CHOOSE x \in {q[i] : i \in DOMAIN q} : \A i \in DOMAIN q : x >= q[i]

\* tiers whose bounds belong to the better tier
GradeInclusive(sum, over) ==
    IF sum <= 10 * over THEN "excellent"
    ELSE IF sum <= 30 * over THEN "good"
    ELSE IF sum <= 100 * over THEN "fair"
    ELSE "poor"

\* line 736, with avg = sum / over
Grade(sum, over) ==
    IF sum < 10 * over THEN "excellent"
    ELSE IF sum < 30 * over THEN "good"
    ELSE IF sum < 100 * over THEN "fair"
    ELSE "poor"

\* lines 731-737: the line of statistics and the grade; avg is sum / over
Stats(n, q) ==
    [count |-> n, sum |-> SumSeq(q), over |-> Len(q), mn |-> SeqMin(q), mx |-> SeqMax(q),
     jitter |-> SeqMax(q) - SeqMin(q), grade |-> Grade(SumSeq(q), Len(q))]

InitPing ==
    /\ backend = "none"
    /\ cvEmpty = "raise"
    /\ role = "ping"
    /\ wPc = "idle"
    /\ wRaw = Text(<<>>)
    /\ wMade = NoMade
    /\ wOut = NoOut
    /\ test = FALSE
    /\ cap = "none"
    /\ mdns = "unset"
    /\ session = "INIT"
    /\ cause = "none"
    /\ exitCode = -1
    /\ clients = {}
    /\ hstate = [p \in Peers |-> "new"]
    /\ frame_num = 0
    /\ bpc = "idle"
    /\ lastTick = NoTick
    /\ outbox = <<>>
    /\ lastMsg = NoMsg
    /\ msgs = 0
    /\ listening = FALSE
    /\ steps = <<>>
    /\ term = [mode |-> "cooked", cursor |-> "shown"]
    /\ peers = {}
    /\ frame_count = 0
    /\ latest_frame = NoFrame
    /\ latest_meta = PyDict(<<>>)
    /\ latencies = <<>>
    /\ rpc = "idle"
    /\ rendered = NoFrame
    /\ conn = "none"
    /\ remote_frame = NoFrame
    /\ thermal = FALSE
    /\ ascii_mode = FALSE
    /\ brightness = 10
    /\ paused = FALSE
    /\ times = <<>>
    /\ seq = 0
    /\ stats = NoStats
    /\ found = <<>>
    /\ zc = "none"
    /\ scan = 0
    /\ announced = {}
    /\ summary = NoSummary
    /\ cols = 0
    /\ rows = 0
    /\ resized = <<>>
    /\ lines = NoLines
    /\ source = "none"
    /\ pos = 0
    /\ last_output = 0
    /\ ffmpeg_proc = "none"
    /\ relay_url = NoUrl
    /\ connect_to = <<>>
    /\ viewed = 0
    /\ keybuf = "none"
    /\ stalled = FALSE
    /\ cstack = <<>>
    /\ releases = 0
    /\ exits = 0
    /\ cam_idx = 0
    /\ available_cameras = <<>>

\* what the probe leaves unchanged whatever it does
pingIdle == <<test, cap, mdns, clients, hstate, frame_num, bpc, lastTick, lastMsg, msgs,
              listening, steps, term, recvVars, remote_frame, envVars, wireVars, viewVars,
              discVars, drawVars, localVars, relayVars, e2eVars, stallVars, cleanVars>>

\* the except Exception of do_ping: the error is printed, do_ping returns and
\* run_ping with it; no statistics
PFails(why) ==
    /\ session' = "CLOSED"
    /\ cause' = why
    /\ exitCode' = 0
    /\ conn' = IF conn = "open" THEN "closed" ELSE conn
    /\ UNCHANGED stats

\* websockets.connect(uri)
PConnect(ok) ==
    /\ session = "INIT"
    /\ IF ok THEN
           /\ session' = "ACTIVE"
           /\ conn' = "open"
           /\ UNCHANGED <<cause, exitCode, stats>>
       ELSE PFails("connect")
    /\ UNCHANGED <<times, seq, outbox, pingIdle>>

\* one turn of `for i in range(count)`: the ping is sent, the reply awaited
\* for 5 s at most.  "pong": it came after rtt ms; "timeout": wait_for raised
\* TimeoutError; "closed": send or recv raised ConnectionClosed.
PProbe(outcome, rtt) ==
    /\ session = "ACTIVE"
    /\ seq < ProbeCount
    /\ outbox' = Append(outbox, [to |-> "server", type |-> "ping", seq |-> seq])
    /\ IF outcome = "pong" THEN
           /\ times' = Append(times, rtt)
           /\ seq' = seq + 1
           /\ UNCHANGED <<session, cause, exitCode, conn, stats>>
       ELSE
           /\ PFails(outcome)
           /\ UNCHANGED <<times, seq>>
    /\ UNCHANGED pingIdle

\* after the loop: the statistics are printed, the connection is closed
PReport ==
    /\ session = "ACTIVE"
    /\ seq = ProbeCount
    /\ stats' = Stats(ProbeCount, times)
    /\ session' = "CLOSED"
    /\ cause' = "done"
    /\ exitCode' = 0
    /\ conn' = "closed"
    /\ UNCHANGED <<times, seq, outbox, pingIdle>>

NextPing ==
    \/ \E ok \in BOOLEAN : PConnect(ok)
    \/ \E outcome \in {"pong", "timeout", "closed"}, rtt \in 1..MaxRtt : PProbe(outcome, rtt)
    \/ PReport

SpecPing == InitPing /\ [][NextPing]_vars


----------------------------------------------------------------------------
(* The latency window of the Viewer, the Bidirectional role and the        *)
(* Receiver, fed one valid frame after the other.  Each sample is stamped  *)
(* with the number of its arrival.                                         *)

\* most frames fed to the window
MaxFrames == 62

InitWindow ==
    /\ backend = "cv2"
    /\ cvEmpty = "raise"
    /\ role \in {"connect", "chat", "receive"}
    /\ wPc = "idle"
    /\ wRaw = Text(<<>>)
    /\ wMade = NoMade
    /\ wOut = NoOut
    /\ test = FALSE
    /\ cap = "none"
    /\ mdns = "unset"
    /\ session = "ACTIVE"
    /\ cause = "none"
    /\ exitCode = -1
    /\ clients = {}
    /\ hstate = [p \in Peers |-> "new"]
    /\ frame_num = 0
    /\ bpc = "idle"
    /\ lastTick = NoTick
    /\ outbox = <<>>
    /\ lastMsg = NoMsg
    /\ msgs = 0
    /\ listening = FALSE
    /\ steps = <<>>
    /\ term = [mode |-> "cooked", cursor |-> "shown"]
    /\ peers = {}
    /\ frame_count = IF role = "chat" THEN <<0, 0>> ELSE 0
    /\ latest_frame = NoFrame
    /\ latest_meta = PyDict(<<>>)
    /\ latencies = <<>>
    /\ rpc = "idle"
    /\ rendered = NoFrame
    /\ conn = "none"
    /\ remote_frame = NoFrame
    /\ thermal = FALSE
    /\ ascii_mode = FALSE
    /\ brightness = 10
    /\ paused = FALSE
    /\ times = <<>>
    /\ seq = 0
    /\ stats = NoStats
    /\ found = <<>>
    /\ zc = "none"
    /\ scan = 0
    /\ announced = {}
    /\ summary = NoSummary
    /\ cols = 0
    /\ rows = 0
    /\ resized = <<>>
    /\ lines = NoLines
    /\ source = "none"
    /\ pos = 0
    /\ last_output = 0
    /\ ffmpeg_proc = "none"
    /\ relay_url = NoUrl
    /\ connect_to = <<>>
    /\ viewed = 0
    /\ keybuf = "none"
    /\ stalled = FALSE
    /\ cstack = <<>>
    /\ releases = 0
    /\ exits = 0
    /\ cam_idx = 0
    /\ available_cameras = <<>>

\* frames with a sample so far
Arrived == IF role = "chat" THEN frame_count[2] ELSE frame_count

\* a valid frame arrives: it is counted and its latency joins the window
\* (lines 397-401, 531-535, 837-841)
WindowFrame ==
    /\ Arrived < MaxFrames
    /\ frame_count' = IF role = "chat" THEN Received(frame_count) ELSE frame_count + 1
    /\ latencies' = PushLatency(latencies, Arrived + 1)
    /\ UNCHANGED <<envVars, wireVars, serveVars, term, peers, latest_frame, latest_meta,
                   rpc, rendered, clientVars, viewVars, sideVars>>

NextWindow == WindowFrame

SpecWindow == InitWindow /\ [][NextWindow]_vars


----------------------------------------------------------------------------
(* Discovery: run_discover.  The browser's thread calls add_service while  *)
(* the main thread sleeps through its scan.                                *)

\* duration = 5
ScanWindow == 5

\* the service instances that can be announced
Services == {"hexcast-a", "hexcast-recv-b"}

\* most calls of add_service in one scan
MaxAnnounce == 3

InitDiscover ==
    /\ backend = "none"
    /\ cvEmpty = "raise"
    /\ role = "discover"
    /\ wPc = "idle"
    /\ wRaw = Text(<<>>)
    /\ wMade = NoMade
    /\ wOut = NoOut
    /\ test = FALSE
    /\ cap = "none"
    /\ mdns = "unset"
    /\ session = "INIT"
    /\ cause = "none"
    /\ exitCode = -1
    /\ clients = {}
    /\ hstate = [p \in Peers |-> "new"]
    /\ frame_num = 0
    /\ bpc = "idle"
    /\ lastTick = NoTick
    /\ outbox = <<>>
    /\ lastMsg = NoMsg
    /\ msgs = 0
    /\ listening = FALSE
    /\ steps = <<>>
    /\ term = [mode |-> "cooked", cursor |-> "shown"]
    /\ peers = {}
    /\ frame_count = 0
    /\ latest_frame = NoFrame
    /\ latest_meta = PyDict(<<>>)
    /\ latencies = <<>>
    /\ rpc = "idle"
    /\ rendered = NoFrame
    /\ conn = "none"
    /\ remote_frame = NoFrame
    /\ thermal = FALSE
    /\ ascii_mode = FALSE
    /\ brightness = 10
    /\ paused = FALSE
    /\ times = <<>>
    /\ seq = 0
    /\ stats = NoStats
    /\ found = <<>>
    /\ zc = "none"
    /\ scan = 0
    /\ announced = {}
    /\ summary = NoSummary
    /\ cols = 0
    /\ rows = 0
    /\ resized = <<>>
    /\ lines = NoLines
    /\ source = "none"
    /\ pos = 0
    /\ last_output = 0
    /\ ffmpeg_proc = "none"
    /\ relay_url = NoUrl
    /\ connect_to = <<>>
    /\ viewed = 0
    /\ keybuf = "none"
    /\ stalled = FALSE
    /\ cstack = <<>>
    /\ releases = 0
    /\ exits = 0
    /\ cam_idx = 0
    /\ available_cameras = <<>>

\* what discovery leaves unchanged whatever it does
discIdle == <<test, cap, mdns, clients, hstate, frame_num, bpc, lastTick, outbox, lastMsg,
              msgs, listening, steps, term, recvVars, clientVars, envVars, wireVars,
              viewVars, pingVars, drawVars, localVars, relayVars, e2eVars, stallVars, cleanVars>>

\* a handle left as it is
LeftOpen(h) == h

\* zc.close()
Close(h) == "closed"

\* the import of zeroconf (exit 1 without it), Zeroconf(), ServiceBrowser
DStart(imported) ==
    /\ session = "INIT"
    /\ IF imported THEN
           /\ zc' = "open"
           /\ session' = "ACTIVE"
           /\ UNCHANGED <<cause, exitCode>>
       ELSE
           /\ session' = "CLOSED"
           /\ cause' = "import"
           /\ exitCode' = 1
           /\ UNCHANGED zc
    /\ UNCHANGED <<found, scan, announced, summary, discIdle>>

\* Listener.add_service(zc, stype, name): an entry is appended when
\* get_service_info resolves the service
DAnnounce(name, resolved) ==
    /\ session = "ACTIVE"
    /\ zc = "open"
    /\ Len(found) < MaxAnnounce
    /\ announced' = announced \cup {name}
    /\ found' = IF resolved THEN Append(found, [name |-> name]) ELSE found
    /\ UNCHANGED <<zc, scan, summary, session, cause, exitCode, discIdle>>

\* one turn of `for i in range(duration)`: time.sleep(1)
DScanStep ==
    /\ session = "ACTIVE"
    /\ scan < ScanWindow
    /\ scan' = scan + 1
    /\ UNCHANGED <<found, zc, announced, summary, session, cause, exitCode, discIdle>>

\* after the scan, or on KeyboardInterrupt during it: the finally closes the
\* handle, and the summary is printed: the suggestion to start a broadcaster
\* when found is empty, the number of entries otherwise
DFinish(interrupted) ==
    /\ session = "ACTIVE"
    /\ IF interrupted THEN scan < ScanWindow ELSE scan = ScanWindow
    /\ zc' = Close(zc)
    /\ summary' = IF found = <<>> THEN [kind |-> "suggest", count |-> 0]
                  ELSE [kind |-> "found", count |-> Len(found)]
    /\ session' = "CLOSED"
    /\ cause' = IF interrupted THEN "interrupt" ELSE "done"
    /\ exitCode' = 0
    /\ UNCHANGED <<found, scan, announced, discIdle>>

NextDiscover ==
    \/ \E imported \in BOOLEAN : DStart(imported)
    \/ \E name \in Services, resolved \in BOOLEAN : DAnnounce(name, resolved)
    \/ DScanStep
    \/ \E interrupted \in BOOLEAN : DFinish(interrupted)

SpecDiscover == InitDiscover /\ [][NextDiscover]_vars

\* the main thread runs: the start is made, each sleep returns, the end of
\* the scan is followed by the finally
SpecDiscoverFair ==
    /\ SpecDiscover
    /\ WF_vars(\E imported \in BOOLEAN : DStart(imported))
    /\ WF_vars(DScanStep)
    /\ WF_vars(DFinish(FALSE))


----------------------------------------------------------------------------
(* Rendering one frame (spec SpecRender).  The frame handed to the         *)
(* renderer already has the target size, as the frames of                  *)
(* generate_test_pattern have, so the resize returns it pixel for pixel.   *)
(* A line is the sequence of its cells followed by RESET; a cell is the    *)
(* colour escape(s) and the one character that follows them.               *)

MaxCols == 2
MaxRows == 2

\* brightness values handed to the renderer, in tenths: 0.5, 1.0 and 2.0
RenderBrightness == {5, 10, 20}

\* colours of the frames; on each of them, scaled and mapped, the integer
\* luma below equals int(0.299 * r + 0.587 * g + 0.114 * b)
Palette == << <<0, 0, 0>>, <<250, 250, 250>>, <<200, 100, 50>>, <<30, 60, 220>> >>

\* frames of w by h pixels, (x, y) -> (R, G, B): plain, striped either way, diagonal
PixelFrames(w, h) ==
    {[p \in (0..(w - 1)) \X (0..(h - 1)) |-> Palette[((a * p[1] + b * p[2]) % 4) + 1]]
        : a \in 0..1, b \in 0..1}

UPPER_HALF == "U+2580"
RESET == "ESC[0m"
ASCII_RAMP == <<" ", ".", ":", "-", "=", "+", "*", "#", "%", "@">>

Luma(r, g, b) == (299 * r + 587 * g + 114 * b) \div 1000

Lowest(a, b) == IF a < b THEN a ELSE b
Highest(a, b) == IF a > b THEN a ELSE b

thermal_map(r, g, b) ==
    LET luma == Luma(r, g, b)
    IN  IF luma < 64 THEN <<0, luma * 2, Lowest(255, luma * 4)>>
        ELSE IF luma < 128
        THEN <<0, Lowest(255, (luma - 64) * 4), Highest(0, 255 - (luma - 64) * 2)>>
        ELSE IF luma < 192
        THEN <<Lowest(255, (luma - 128) * 4), Highest(0, 255 - (luma - 128) * 2), 0>>
        ELSE <<255, Lowest(255, (luma - 192) * 4), Lowest(255, (luma - 192) * 2)>>

rgb_to_ascii(r, g, b) ==
    ASCII_RAMP[Lowest(Len(ASCII_RAMP) - 1, (Luma(r, g, b) * Len(ASCII_RAMP)) \div 256) + 1]

\* min(255, int(v * brightness)), and np.clip(v * brightness, 0, 255) cut to uint8
Scale(v, b) == IF b # 10 THEN Lowest(255, (v * b) \div 10) ELSE v

get_pixel(img, x, y) == img[<<x, y>>]

\* the brightness and then the thermal palette, on one pixel
Shade(px, th, b) ==
    LET s == <<Scale(px[1], b), Scale(px[2], b), Scale(px[3], b)>>
    IN  IF th THEN thermal_map(s[1], s[2], s[3]) ELSE s

SameRow(row) == row * 2

\* y1, the pixel row under y0 == row * 2
LowerRow(row) == row * 2 + 1

render_frame_truecolor(img, c, r, th, b) ==
    LET target_w == c
        target_h == r * 2
        part(x, row) ==
            LET y0 == row * 2
                y1 == LowerRow(row)
                p0 == get_pixel(img, x, y0)
                p1 == IF y1 < target_h THEN get_pixel(img, x, y1) ELSE <<0, 0, 0>>
            IN  [fg |-> Shade(p0, th, b), bg |-> Shade(p1, th, b), ch |-> UPPER_HALF]
    IN  [row \in 1..r |->
            [parts |-> [x \in 1..target_w |-> part(x - 1, row - 1)], end |-> RESET]]

render_frame_ascii(img, c, r, th, b) ==
    LET part(x, y) ==
            LET px == Shade(get_pixel(img, x, y), th, b)
            IN  [fg |-> px, ch |-> rgb_to_ascii(px[1], px[2], px[3])]
    IN  [y \in 1..r |->
            [parts |-> [x \in 1..c |-> part(x - 1, y - 1)], end |-> RESET]]

InitRender ==
    /\ backend \in {"cv2", "pil"}
    /\ cvEmpty = "raise"
    /\ role = "local"
    /\ wPc = "idle"
    /\ wRaw = Text(<<>>)
    /\ wMade = NoMade
    /\ wOut = NoOut
    /\ test = FALSE
    /\ cap = "none"
    /\ mdns = "unset"
    /\ session = "INIT"
    /\ cause = "none"
    /\ exitCode = -1
    /\ clients = {}
    /\ hstate = [p \in Peers |-> "new"]
    /\ frame_num = 0
    /\ bpc = "idle"
    /\ lastTick = NoTick
    /\ outbox = <<>>
    /\ lastMsg = NoMsg
    /\ msgs = 0
    /\ listening = FALSE
    /\ steps = <<>>
    /\ term = [mode |-> "cooked", cursor |-> "shown"]
    /\ peers = {}
    /\ frame_count = 0
    /\ latest_frame = NoFrame
    /\ latest_meta = PyDict(<<>>)
    /\ latencies = <<>>
    /\ rpc = "idle"
    /\ rendered = NoFrame
    /\ conn = "none"
    /\ remote_frame = NoFrame
    /\ thermal \in BOOLEAN
    /\ ascii_mode \in BOOLEAN
    /\ brightness \in RenderBrightness
    /\ paused = FALSE
    /\ times = <<>>
    /\ seq = 0
    /\ stats = NoStats
    /\ found = <<>>
    /\ zc = "none"
    /\ scan = 0
    /\ announced = {}
    /\ summary = NoSummary
    /\ cols \in 1..MaxCols
    /\ rows \in 1..MaxRows
    /\ lines = NoLines
    /\ source = "none"
    /\ pos = 0
    /\ last_output = 0
    /\ ffmpeg_proc = "none"
    /\ relay_url = NoUrl
    /\ connect_to = <<>>
    /\ viewed = 0
    /\ keybuf = "none"
    /\ stalled = FALSE
    /\ cstack = <<>>
    /\ releases = 0
    /\ exits = 0
    /\ cam_idx = 0
    /\ available_cameras = <<>>
    /\ resized \in PixelFrames(cols, IF ascii_mode THEN rows ELSE rows * 2)

renderIdle == <<test, cap, mdns, clients, hstate, frame_num, bpc, lastTick, outbox, lastMsg,
                msgs, listening, steps, term, recvVars, clientVars, envVars, wireVars,
                viewVars, pingVars, discVars, session, cause, exitCode, localVars, relayVars, e2eVars, stallVars, cleanVars>>

RenderTruecolor ==
    /\ lines = NoLines
    /\ ~ascii_mode
    /\ lines' = render_frame_truecolor(resized, cols, rows, thermal, brightness)
    /\ UNCHANGED <<cols, rows, resized, renderIdle>>

RenderAscii ==
    /\ lines = NoLines
    /\ ascii_mode
    /\ lines' = render_frame_ascii(resized, cols, rows, thermal, brightness)
    /\ UNCHANGED <<cols, rows, resized, renderIdle>>

NextRender ==
    \/ RenderTruecolor
    \/ RenderAscii

SpecRender == InitRender /\ [][NextRender]_vars


----------------------------------------------------------------------------
(* The keys (spec SpecKeys): the block under kbhit() of main's display     *)
(* loop, of run_connect.viewer, of run_receive.render_loop and of          *)
(* run_chat.render_loop, on a running session.  Brightness is counted in   *)
(* tenths; the floats of the source stay within 1e-15 of a tenth and the   *)
(* bounds 0.2 and 2.0 are reached exactly.                                 *)

\* detect_cameras(): no camera (a file, the screen or the test pattern is the
\* source), one, a front and a back one, two front ones
CameraLists ==
    {<<>>,
     <<[index |-> 0, facing |-> "front"]>>,
     <<[index |-> 0, facing |-> "front"], [index |-> 1, facing |-> "back"]>>,
     <<[index |-> 0, facing |-> "front"], [index |-> 2, facing |-> "front"]>>}

InitKeys ==
    /\ backend = "cv2"
    /\ cvEmpty = "raise"
    /\ role \in {"local", "connect", "receive", "chat"}
    /\ wPc = "idle"
    /\ wRaw = Text(<<>>)
    /\ wMade = NoMade
    /\ wOut = NoOut
    /\ test = FALSE
    /\ mdns = "unset"
    /\ session = "ACTIVE"
    /\ cause = "none"
    /\ exitCode = -1
    /\ clients = {}
    /\ hstate = [p \in Peers |-> "new"]
    /\ frame_num = 0
    /\ bpc = "idle"
    /\ lastTick = NoTick
    /\ outbox = <<>>
    /\ lastMsg = NoMsg
    /\ msgs = 0
    /\ listening = FALSE
    /\ steps = <<>>
    /\ term = [mode |-> "cbreak", cursor |-> "hidden"]
    /\ peers = {}
    /\ frame_count = 0
    /\ latest_frame = NoFrame
    /\ latest_meta = PyDict(<<>>)
    /\ latencies = <<>>
    /\ rpc = "idle"
    /\ rendered = NoFrame
    /\ conn = "none"
    /\ remote_frame = NoFrame
    /\ thermal \in BOOLEAN
    /\ ascii_mode \in IF role = "chat" THEN {FALSE} ELSE BOOLEAN
    /\ brightness = 10
    /\ paused = FALSE
    /\ times = <<>>
    /\ seq = 0
    /\ stats = NoStats
    /\ found = <<>>
    /\ zc = "none"
    /\ scan = 0
    /\ announced = {}
    /\ summary = NoSummary
    /\ cols = 0
    /\ rows = 0
    /\ resized = <<>>
    /\ lines = NoLines
    /\ available_cameras \in IF role = "local" THEN CameraLists ELSE {<<>>}
    /\ cam_idx = IF available_cameras # <<>> THEN available_cameras[1].index ELSE 0
    /\ cap = IF available_cameras # <<>> \/ role = "chat" THEN "open" ELSE "none"
    /\ source = "none"
    /\ pos = 0
    /\ last_output = 0
    /\ ffmpeg_proc = "none"
    /\ relay_url = NoUrl
    /\ connect_to = <<>>
    /\ viewed = 0
    /\ keybuf = "none"
    /\ stalled = FALSE
    /\ cstack = <<>>
    /\ releases = 0
    /\ exits = 0

keysIdle == <<test, mdns, clients, hstate, frame_num, bpc, lastTick, outbox, lastMsg, msgs,
              listening, steps, recvVars, clientVars, envVars, wireVars, sideVars,
              available_cameras>>

\* cleanup(): the terminal is restored, the capture released, sys.exit(0)
KeyQuit ==
    /\ term' = old_settings
    /\ cap' = IF cap = "open" THEN "released" ELSE cap
    /\ session' = "CLOSED"
    /\ cause' = "quit"
    /\ exitCode' = 0
    /\ SetRenderState(render_state)

\* main's display loop reads ch; opened: the camera switched to opens,
\* reopened: after a failed swap the first camera opens
MainKeyPress(ch, opened, reopened) ==
    /\ role = "local"
    /\ session = "ACTIVE"
    /\ IF ch \in QuitKeys THEN KeyQuit
       ELSE /\ SetRenderState(MainKey(render_state, ch, available_cameras, opened))
            /\ cap' = IF ch \in {"c", "C"} /\ Len(available_cameras) > 1
                      THEN (IF opened \/ reopened THEN "open" ELSE "none")
                      ELSE IF /\ ch \in {"f", "b"}
                              /\ MainKey(render_state, ch, available_cameras, opened).cam_idx
                                    # cam_idx
                      THEN (IF opened THEN "open" ELSE "none")
                      ELSE cap
            /\ UNCHANGED <<term, session, cause, exitCode>>
    /\ UNCHANGED keysIdle

\* run_connect.viewer and run_receive.render_loop read ch
ViewerKeyPress(ch) ==
    /\ role \in {"connect", "receive"}
    /\ session = "ACTIVE"
    /\ IF ch \in QuitKeys THEN KeyQuit
       ELSE /\ SetRenderState(ViewerKey(render_state, ch))
            /\ UNCHANGED <<term, cap, session, cause, exitCode>>
    /\ UNCHANGED keysIdle

\* run_chat.render_loop reads ch
ChatKeyPress(ch) ==
    /\ role = "chat"
    /\ session = "ACTIVE"
    /\ IF ch \in QuitKeys THEN KeyQuit
       ELSE /\ SetRenderState(ChatKey(render_state, ch))
            /\ UNCHANGED <<term, cap, session, cause, exitCode>>
    /\ UNCHANGED keysIdle

NextKeys ==
    \/ \E ch \in Keys, opened \in BOOLEAN, reopened \in BOOLEAN :
            MainKeyPress(ch, opened, reopened)
    \/ \E ch \in Keys : ViewerKeyPress(ch)
    \/ \E ch \in Keys : ChatKeyPress(ch)

SpecKeys == InitKeys /\ [][NextKeys]_vars


----------------------------------------------------------------------------
(* The local display loop (spec SpecLocal): main's while loop, one pass    *)
(* per step, after the source was opened.                                  *)

\* frames of the file source, and passes that render before the model stops
MaxFileLen == 2
MaxLocalFrames == 3

\* what kbhit()/getch() deliver in one pass: nothing, or one of these keys
LocalKeys == {"none", "q", " ", "t", "c", "x"}

InitLocal ==
    /\ backend = "cv2"
    /\ cvEmpty = "raise"
    /\ role = "local"
    /\ wPc = "idle"
    /\ wRaw = Text(<<>>)
    /\ wMade = NoMade
    /\ wOut = NoOut
    /\ mdns = "unset"
    /\ session = "ACTIVE"
    /\ cause = "none"
    /\ exitCode = -1
    /\ clients = {}
    /\ hstate = [p \in Peers |-> "new"]
    /\ frame_num = 0
    /\ bpc = "idle"
    /\ lastTick = NoTick
    /\ outbox = <<>>
    /\ lastMsg = NoMsg
    /\ msgs = 0
    /\ listening = FALSE
    /\ steps = <<>>
    /\ term = [mode |-> "cbreak", cursor |-> "hidden"]
    /\ peers = {}
    /\ frame_count = 0
    /\ latest_frame = NoFrame
    /\ latest_meta = PyDict(<<>>)
    /\ latencies = <<>>
    /\ rpc = "idle"
    /\ rendered = NoFrame
    /\ conn = "none"
    /\ remote_frame = NoFrame
    /\ thermal \in BOOLEAN
    /\ ascii_mode = FALSE
    /\ brightness = 10
    /\ paused = FALSE
    /\ times = <<>>
    /\ seq = 0
    /\ stats = NoStats
    /\ found = <<>>
    /\ zc = "none"
    /\ scan = 0
    /\ announced = {}
    /\ summary = NoSummary
    /\ cols = 0
    /\ rows = 0
    /\ resized = <<>>
    /\ lines = NoLines
    /\ source \in {"test", "screen", "file", "camera"}
    /\ pos = 0
    /\ last_output = 0
    /\ test = (source = "test")
    /\ available_cameras \in IF source = "camera" THEN CameraLists ELSE {<<>>}
    /\ cam_idx = IF available_cameras # <<>> THEN available_cameras[1].index ELSE 0
    /\ cap = IF source \in {"file", "camera"} THEN "open" ELSE "none"
    /\ ffmpeg_proc = IF source = "screen" THEN "running" ELSE "none"
    /\ relay_url = NoUrl
    /\ connect_to = <<>>
    /\ viewed = 0
    /\ keybuf = "none"
    /\ stalled = FALSE
    /\ cstack = <<>>
    /\ releases = 0
    /\ exits = 0

localIdle == <<mdns, clients, hstate, bpc, lastTick, outbox, lastMsg, msgs, listening, steps,
               recvVars, clientVars, envVars, wireVars, pingVars, discVars, drawVars,
               available_cameras, source, test, relayVars, e2eVars, stallVars, cleanVars>>

\* cleanup() (code 0) or the except branch of main (code 1): the terminal
\* settings are put back, capture and ffmpeg released, sys.exit(code)
LocalEnd(capNow, code, why) ==
    /\ term' = old_settings
    /\ cap' = IF capNow = "open" THEN "released" ELSE capNow
    /\ ffmpeg_proc' = IF ffmpeg_proc = "running" THEN "killed" ELSE ffmpeg_proc
    /\ session' = "CLOSED"
    /\ cause' = why
    /\ exitCode' = code
    /\ UNCHANGED <<frame_num, last_output, pos>>

\* a loop that reads and renders whether paused or not
NeverSkips(st) == FALSE

\* if paused: sleep and continue
SkipsPass(st) == st.paused

\* a failed read that leaves the position where it is
StayAtEnd(p) == p

\* cap.set(cv2.CAP_PROP_POS_FRAMES, 0)
Rewind(p) == 0

\* the capture after the key: a swap or a jump opens another camera
CapAfterKey(ch, opened, reopened) ==
    IF ch \in {"c", "C"} /\ Len(available_cameras) > 1
    THEN (IF opened \/ reopened THEN "open" ELSE "none")
    ELSE IF /\ ch \in {"f", "b"}
            /\ MainKey(render_state, ch, available_cameras, opened).cam_idx # cam_idx
    THEN (IF opened THEN "open" ELSE "none")
    ELSE cap

\* one pass of the loop: ch is the key read (or "none"), ret what the read of
\* the source returns; a file delivers MaxFileLen frames and then fails
LocalStep(ch, opened, reopened, ret) ==
    /\ role = "local"
    /\ session = "ACTIVE"
    /\ frame_num < MaxLocalFrames
    /\ (source = "file" /\ pos = MaxFileLen) => ~ret
    /\ LET st == IF ch \in QuitKeys \/ ch = "none" THEN render_state
                 ELSE MainKey(render_state, ch, available_cameras, opened)
           capNow == IF ch \in QuitKeys \/ ch = "none" THEN cap
                     ELSE CapAfterKey(ch, opened, reopened)
       IN  /\ SetRenderState(st)
           /\ IF ch \in QuitKeys THEN LocalEnd(cap, 0, "quit")
              ELSE IF SkipsPass(st) THEN
                  /\ cap' = capNow
                  /\ UNCHANGED <<term, session, cause, exitCode, frame_num, last_output,
                                 pos, ffmpeg_proc>>
              ELSE IF source = "screen" /\ ~ret THEN LocalEnd(capNow, 0, "read")
              ELSE IF source \in {"file", "camera"} /\ capNow = "none"
                  THEN LocalEnd(capNow, 1, "raised")
              ELSE IF source = "file" /\ ~ret THEN
                  /\ pos' = Rewind(pos)
                  /\ cap' = capNow
                  /\ UNCHANGED <<term, session, cause, exitCode, frame_num, last_output,
                                 ffmpeg_proc>>
              ELSE IF source = "camera" /\ ~ret THEN LocalEnd(capNow, 0, "read")
              ELSE
                  /\ frame_num' = frame_num + 1
                  /\ last_output' = frame_num + 1
                  /\ pos' = IF source = "file" THEN pos + 1 ELSE pos
                  /\ cap' = capNow
                  /\ UNCHANGED <<term, session, cause, exitCode, ffmpeg_proc>>
    /\ UNCHANGED localIdle

NextLocal ==
    \E ch \in LocalKeys, opened \in BOOLEAN, reopened \in BOOLEAN, ret \in BOOLEAN :
        LocalStep(ch, opened, reopened, ret)

SpecLocal == InitLocal /\ [][NextLocal]_vars


----------------------------------------------------------------------------
(* The Relay-assisted Viewer (spec SpecRelay): run_relay works out         *)
(* args.connect from the relay URL and calls run_connect.  A URL is the    *)
(* sequence of its characters.                                             *)

\* relay URLs: a scheme, host or host:port, and then nothing, a path (one
\* with a URL in it), or a query right after the host
RelayUrls ==
    {[url |-> scheme \o hostport \o rest, hostport |-> hostport] :
        scheme \in {<<"w", "s", ":", "/", "/">>, <<"w", "s", "s", ":", "/", "/">>},
        hostport \in {<<"h">>, <<"h", ":", "8">>},
        rest \in {<<>>, <<"/">>, <<"/", "r">>,
                  <<"/", "w", "s", ":", "/", "/", "x">>, <<"?", "r">>}}

\* s.replace(old, "")
RECURSIVE Remove(_, _)
Remove(s, old) ==
    IF Len(s) < Len(old) THEN s
    ELSE IF SubSeq(s, 1, Len(old)) = old
         THEN Remove(SubSeq(s, Len(old) + 1, Len(s)), old)
         ELSE <<s[1]>> \o Remove(Tail(s), old)

\* s.split("/")[0]
RECURSIVE UpToSlash(_)
UpToSlash(s) ==
    IF s = <<>> \/ s[1] = "/" THEN <<>> ELSE <<s[1]>> \o UpToSlash(Tail(s))

\* relay_url.replace("wss://", "").replace("ws://", "").split("/")[0]
RelayTarget(url) ==
    UpToSlash(Remove(Remove(url, <<"w", "s", "s", ":", "/", "/">>), <<"w", "s", ":", "/", "/">>))

InitRelay ==
    /\ backend \in {"cv2", "pil"}
    /\ cvEmpty = "raise"
    /\ role = "relay"
    /\ wPc = "idle"
    /\ wRaw = Text(<<>>)
    /\ wMade = NoMade
    /\ wOut = NoOut
    /\ test = FALSE
    /\ cap = "none"
    /\ mdns = "unset"
    /\ session = "INIT"
    /\ cause = "none"
    /\ exitCode = -1
    /\ clients = {}
    /\ hstate = [p \in Peers |-> "new"]
    /\ frame_num = 0
    /\ bpc = "idle"
    /\ lastTick = NoTick
    /\ outbox = <<>>
    /\ lastMsg = NoMsg
    /\ msgs = 0
    /\ listening = FALSE
    /\ steps = <<>>
    /\ term = [mode |-> "cooked", cursor |-> "shown"]
    /\ peers = {}
    /\ frame_count = 0
    /\ latest_frame = NoFrame
    /\ latest_meta = PyDict(<<>>)
    /\ latencies = <<>>
    /\ rpc = "idle"
    /\ rendered = NoFrame
    /\ conn = "none"
    /\ remote_frame = NoFrame
    /\ thermal = FALSE
    /\ ascii_mode = FALSE
    /\ brightness = 10
    /\ paused = FALSE
    /\ times = <<>>
    /\ seq = 0
    /\ stats = NoStats
    /\ found = <<>>
    /\ zc = "none"
    /\ scan = 0
    /\ announced = {}
    /\ summary = NoSummary
    /\ cols = 0
    /\ rows = 0
    /\ resized = <<>>
    /\ lines = NoLines
    /\ source = "none"
    /\ pos = 0
    /\ last_output = 0
    /\ ffmpeg_proc = "none"
    /\ relay_url \in RelayUrls
    /\ connect_to = <<>>
    /\ viewed = 0
    /\ keybuf = "none"
    /\ stalled = FALSE
    /\ cstack = <<>>
    /\ releases = 0
    /\ exits = 0
    /\ cam_idx = 0
    /\ available_cameras = <<>>

\* run_relay up to the call of run_connect
RelayStart ==
    /\ role = "relay"
    /\ role' = "connect"
    /\ connect_to' = RelayTarget(relay_url.url)
    /\ UNCHANGED <<backend, cvEmpty, relay_url, wireVars, serveVars, restVars, viewVars,
                   pingVars, discVars, drawVars, localVars, e2eVars, stallVars, cleanVars>>

NextRelay ==
    \/ RelayStart
    \/ role = "connect" /\ NextConnect

SpecRelay == InitRelay /\ [][NextRelay]_vars


----------------------------------------------------------------------------
(* End to end (spec SpecEndToEnd): a Broadcaster, on the test pattern when *)
(* test holds, and the Viewer behind peer "A"; the other peers are        *)
(* Viewers too.  A Viewer sends nothing, so the handlers receive nothing.  *)

InitEndToEnd ==
    /\ backend = "cv2"
    /\ cvEmpty = "raise"
    /\ role = "serve"
    /\ wPc = "idle"
    /\ wRaw = Text(<<>>)
    /\ wMade = NoMade
    /\ wOut = NoOut
    /\ test \in BOOLEAN
    /\ cap = "none"
    /\ mdns = "unset"
    /\ session = "INIT"
    /\ cause = "none"
    /\ exitCode = -1
    /\ clients = {}
    /\ hstate = [p \in Peers |-> "new"]
    /\ frame_num = 0
    /\ bpc = "idle"
    /\ lastTick = NoTick
    /\ outbox = <<>>
    /\ lastMsg = NoMsg
    /\ msgs = 0
    /\ listening = FALSE
    /\ steps = <<>>
    /\ term = [mode |-> "cooked", cursor |-> "shown"]
    /\ peers = {}
    /\ frame_count = 0
    /\ latest_frame = NoFrame
    /\ latest_meta = PyDict(<<>>)
    /\ latencies = <<>>
    /\ rpc = "idle"
    /\ rendered = NoFrame
    /\ conn = "none"
    /\ remote_frame = NoFrame
    /\ thermal = FALSE
    /\ ascii_mode = FALSE
    /\ brightness = 10
    /\ paused = FALSE
    /\ times = <<>>
    /\ seq = 0
    /\ stats = NoStats
    /\ found = <<>>
    /\ zc = "none"
    /\ scan = 0
    /\ announced = {}
    /\ summary = NoSummary
    /\ cols = 0
    /\ rows = 0
    /\ resized = <<>>
    /\ lines = NoLines
    /\ source = "none"
    /\ pos = 0
    /\ last_output = 0
    /\ ffmpeg_proc = "none"
    /\ relay_url = NoUrl
    /\ connect_to = <<>>
    /\ viewed = 0
    /\ keybuf = "none"
    /\ stalled = FALSE
    /\ cstack = <<>>
    /\ releases = 0
    /\ exits = 0
    /\ cam_idx = 0
    /\ available_cameras = <<>>

\* one round of `async for msg in ws` in run_connect.viewer: the frame of the
\* last tick, if that tick sent it to "A", is parsed, decoded and drawn; when
\* the server has closed the connection the loop ends
ViewerStep ==
    /\ conn # "closed"
    /\ IF /\ lastTick.captured
          /\ "A" \in lastTick.tried \ lastTick.dead
          /\ viewed < lastTick.n
       THEN /\ viewed' = lastTick.n
            /\ frame_count' = frame_count + 1
            /\ conn' = "open"
       ELSE /\ hstate["A"] \in {"closed", "failed"} \/ (session = "CLOSED" /\ conn = "open")
            /\ conn' = "closed"
            /\ UNCHANGED <<viewed, frame_count>>
    /\ UNCHANGED <<envVars, wireVars, serveVars, viewVars, term, peers, latest_frame,
                   latest_meta, latencies, rpc, rendered, remote_frame, pingVars, discVars,
                   drawVars, localVars, relayVars, stallVars, cleanVars>>

NextEndToEnd ==
    \/ \E opened \in BOOLEAN : OpenCapture(opened)
    \/ \E outcome \in {"none", "registered", "failed"} : RegisterMdns(outcome)
    \/ \E bound \in BOOLEAN : Bind(bound)
    \/ \E p \in Peers : Accept(p)
    \/ \E p \in Peers : Disconnect(p)
    \/ \E ret \in BOOLEAN : BroadcastTick(ret)
    \/ BroadcastWake
    \/ Interrupt
    \/ Finish
    \/ ViewerStep

SpecEndToEnd == InitEndToEnd /\ [][NextEndToEnd]_vars

\* the event loop runs every task that is ready: the broadcast loop, its
\* sleep, the shutdown, and the Viewer's receive loop
SpecEndToEndFair ==
    /\ SpecEndToEnd
    /\ WF_vars(\E ret \in BOOLEAN : BroadcastTick(ret))
    /\ WF_vars(BroadcastWake)
    /\ WF_vars(Finish)
    /\ WF_vars(ViewerStep)


----------------------------------------------------------------------------
(* The grade of the latency probe (spec SpecGrade): run_ping after its ten *)
(* probes were all answered, over round trips on both sides of the tiers.  *)

\* round-trip times in ms
RttSamples == {5, 10, 20, 30, 99, 100, 150}

\* ten samples: k times one value, then another
ProbeRuns ==
    {[i \in 1..ProbeCount |-> IF i <= k THEN a ELSE b] :
        a \in RttSamples, b \in RttSamples, k \in {0, 5, 9}}

InitGrade ==
    /\ backend = "none"
    /\ cvEmpty = "raise"
    /\ role = "ping"
    /\ wPc = "idle"
    /\ wRaw = Text(<<>>)
    /\ wMade = NoMade
    /\ wOut = NoOut
    /\ test = FALSE
    /\ cap = "none"
    /\ mdns = "unset"
    /\ session = "ACTIVE"
    /\ cause = "none"
    /\ exitCode = -1
    /\ clients = {}
    /\ hstate = [p \in Peers |-> "new"]
    /\ frame_num = 0
    /\ bpc = "idle"
    /\ lastTick = NoTick
    /\ outbox = [i \in 1..ProbeCount |-> [to |-> "server", type |-> "ping", seq |-> i - 1]]
    /\ lastMsg = NoMsg
    /\ msgs = 0
    /\ listening = FALSE
    /\ steps = <<>>
    /\ term = [mode |-> "cooked", cursor |-> "shown"]
    /\ peers = {}
    /\ frame_count = 0
    /\ latest_frame = NoFrame
    /\ latest_meta = PyDict(<<>>)
    /\ latencies = <<>>
    /\ rpc = "idle"
    /\ rendered = NoFrame
    /\ conn = "open"
    /\ remote_frame = NoFrame
    /\ thermal = FALSE
    /\ ascii_mode = FALSE
    /\ brightness = 10
    /\ paused = FALSE
    /\ times \in ProbeRuns
    /\ seq = ProbeCount
    /\ stats = NoStats
    /\ found = <<>>
    /\ zc = "none"
    /\ scan = 0
    /\ announced = {}
    /\ summary = NoSummary
    /\ cols = 0
    /\ rows = 0
    /\ resized = <<>>
    /\ lines = NoLines
    /\ source = "none"
    /\ pos = 0
    /\ last_output = 0
    /\ ffmpeg_proc = "none"
    /\ relay_url = NoUrl
    /\ connect_to = <<>>
    /\ viewed = 0
    /\ keybuf = "none"
    /\ stalled = FALSE
    /\ cstack = <<>>
    /\ releases = 0
    /\ exits = 0
    /\ cam_idx = 0
    /\ available_cameras = <<>>

SpecGrade == InitGrade /\ [][PReport]_vars


----------------------------------------------------------------------------
(* The Viewer in front of a peer that may stall (spec SpecStall): the user *)
(* types the quit key into the terminal's buffer; the Viewer reads the     *)
(* buffer in its turn of `async for msg in ws`, which a message starts.    *)

\* the user presses q: the key waits in the buffer until getch() takes it
UserTypesQuit ==
    /\ session = "ACTIVE"
    /\ keybuf = "none"
    /\ keybuf' = "q"
    /\ UNCHANGED <<stalled, envVars, wireVars, serveVars, restVars, viewVars, pingVars,
                   discVars, drawVars, localVars, relayVars, e2eVars, cleanVars>>

\* the peer sends nothing from now on
PeerStalls ==
    /\ session = "ACTIVE"
    /\ ~stalled
    /\ stalled' = TRUE
    /\ UNCHANGED <<keybuf, envVars, wireVars, serveVars, restVars, viewVars, pingVars,
                   discVars, drawVars, localVars, relayVars, e2eVars, cleanVars>>

\* a message of a peer that still sends starts a turn of the loop, and the
\* turn reads the buffer
ViewerTurn(raw, drawn) ==
    /\ ~stalled
    /\ VRecv(raw, keybuf, drawn)

\* a peer that has stalled does not close the connection either
PeerCloses(clean) ==
    /\ ~stalled
    /\ VClosed(clean)

NextStall ==
    \/ VStart
    \/ \E ok \in BOOLEAN : VConnect(ok)
    \/ UserTypesQuit
    \/ PeerStalls
    \/ \E raw \in ViewerMsgs, drawn \in BOOLEAN : ViewerTurn(raw, drawn)
    \/ \E clean \in BOOLEAN : PeerCloses(clean)
    \/ VInterrupt

SpecStall == InitConnect /\ [][NextStall]_vars

\* a turn can run: the peer still sends and the loop still iterates
TurnPossible ==
    /\ ~stalled
    /\ session = "ACTIVE"
    /\ msgs < MaxMsgs

\* asyncio.run(viewer()) starts the coroutine and the connection attempt
\* completes; the event loop runs a turn whenever a message has arrived
\* (weak fairness of ViewerTurn, with its enabling condition written out)
SpecStallFair ==
    /\ SpecStall
    /\ WF_vars(VStart)
    /\ WF_vars(\E ok \in BOOLEAN : VConnect(ok))
    /\ \/ []<>(~TurnPossible)
       \/ []<><<\E raw \in ViewerMsgs, drawn \in BOOLEAN : ViewerTurn(raw, drawn)>>_vars


----------------------------------------------------------------------------
(* The latency probe in front of a Broadcaster's connection (SpecProbe):   *)
(* what ws.recv() returns is the next message of the connection, a pong of *)
(* the handler or a frame packet of the broadcast loop.                    *)

S_pong == <<112, 111, 110, 103>>
K_st == <<115, 116>>

\* json.dumps({"type": "pong", "t": meta.get("t"), "st": time.time()})
PongText(t, st) ==
    json_dumps(PyDict(<< [k |-> K_type, v |-> PyStr(S_pong)],
                         [k |-> K_t, v |-> PyInt(t)],
                         [k |-> K_st, v |-> PyInt(st)] >>))

\* the frame packets of the fan-out
ProbeFrames == {Text(make_packet(Frame(1, 1, TRUE), <<97>>, 7))}
\* the messages a probing connection can find next
ProbeReplies == {Text(PongText(0, MaxTime))} \cup ProbeFrames

\* what a turn of the probe leaves unchanged
probeIdle == <<test, cap, mdns, clients, hstate, frame_num, bpc, lastTick, msgs,
               listening, steps, term, recvVars, remote_frame, envVars, wireVars, viewVars,
               discVars, drawVars, localVars, relayVars, e2eVars, stallVars, cleanVars>>

\* one turn of `for i in range(count)` in which a message arrives within
\* 5 s: resp is that message, whatever it is; json.loads(resp) and
\* data.get("st", 0) run on it, and an exception of either is caught by the
\* except Exception around the whole measurement
PTurn(resp, rtt) ==
    /\ session = "ACTIVE"
    /\ seq < ProbeCount
    /\ outbox' = Append(outbox, [to |-> "server", type |-> "ping", seq |-> seq])
    /\ lastMsg' = [peer |-> "server", raw |-> resp]
    /\ \E data \in {json_loads(resp.s)} :
         IF data.ok /\ data.val.tag = "dict" THEN
             /\ times' = Append(times, rtt)
             /\ seq' = seq + 1
             /\ UNCHANGED <<session, cause, exitCode, conn, stats>>
         ELSE
             /\ PFails("raised")
             /\ UNCHANGED <<times, seq>>
    /\ UNCHANGED probeIdle

NextProbe ==
    \/ \E ok \in BOOLEAN : PConnect(ok)
    \/ \E resp \in ProbeReplies, rtt \in 1..MaxRtt : PTurn(resp, rtt)
    \/ \E outcome \in {"timeout", "closed"}, rtt \in 1..MaxRtt : PProbe(outcome, rtt)
    \/ PReport

SpecProbe == InitPing /\ [][NextProbe]_vars


----------------------------------------------------------------------------
(* main's cleanup, statement by statement (SpecCleanup).  cleanup is the   *)
(* handler of SIGINT and SIGTERM and is also called by the quit key; a     *)
(* Python signal handler runs between two bytecodes of the main thread,    *)
(* also while an earlier call of cleanup is still running.                 *)

\* most calls of cleanup in progress at once
MaxNest == 2

\* the statements of cleanup, in order
CleanupSteps == <<"tcsetattr", "show_cursor", "clear_screen", "release", "kill", "print", "exit">>

\* `if cap:`: cap is the capture object, released or not
CapIsSet(c) == c # "none"

\* what cleanup leaves unchanged
cleanupIdle == <<frame_num, last_output, pos, source, test, mdns, clients, hstate, bpc,
                 lastTick, outbox, lastMsg, msgs, listening, steps, recvVars, clientVars,
                 envVars, wireVars, viewVars, pingVars, discVars, drawVars, relayVars,
                 e2eVars, stallVars>>

\* the quit key or the first signal calls cleanup
CleanupBegin(why) ==
    /\ session = "ACTIVE"
    /\ cstack = <<>>
    /\ cstack' = <<1>>
    /\ session' = "CLOSING"
    /\ cause' = why
    /\ UNCHANGED <<releases, exits, term, cap, ffmpeg_proc, exitCode, cleanupIdle>>

\* a signal arrives while cleanup runs: the handler is called on top of it
CleanupSignal ==
    /\ cstack # <<>>
    /\ Len(cstack) < MaxNest
    /\ cstack' = Append(cstack, 1)
    /\ UNCHANGED <<releases, exits, term, cap, ffmpeg_proc, session, cause, exitCode, cleanupIdle>>

\* the innermost call runs its next statement; sys.exit(0) raises SystemExit
\* through every call in progress and the process ends
CleanupStep ==
    /\ cstack # <<>>
    /\ LET n == Len(cstack)
           st == CleanupSteps[cstack[n]]
       IN  /\ term' = IF st = "tcsetattr" THEN [term EXCEPT !.mode = old_settings.mode]
                      ELSE IF st = "show_cursor" THEN [term EXCEPT !.cursor = "shown"]
                      ELSE term
           /\ cap' = IF st = "release" /\ CapIsSet(cap) THEN "released" ELSE cap
           /\ releases' = IF st = "release" /\ CapIsSet(cap) THEN releases + 1 ELSE releases
           /\ ffmpeg_proc' = IF st = "kill" /\ ffmpeg_proc # "none" THEN "killed" ELSE ffmpeg_proc
           /\ IF st = "exit" THEN
                  /\ cstack' = <<>>
                  /\ session' = "CLOSED"
                  /\ exitCode' = 0
                  /\ exits' = exits + 1
              ELSE
                  /\ cstack' = [cstack EXCEPT ![n] = @ + 1]
                  /\ UNCHANGED <<session, exitCode, exits>>
    /\ UNCHANGED <<cause, cleanupIdle>>

NextCleanup ==
    \/ \E why \in {"quit", "signal"} : CleanupBegin(why)
    \/ CleanupSignal
    \/ CleanupStep

SpecCleanup == InitLocal /\ [][NextCleanup]_vars

----------------------------------------------------------------------------
(* Properties of the Broadcaster (specification Spec)                      *)

\* C1: in every tick that captures a frame while the registry is non-empty,
\* the frame is encoded exactly once, a send is attempted to every peer
\* registered at the start of the tick, and the loop goes on to the next tick.
C1_TickFansOut ==
    (lastTick.captured /\ lastTick.reg # {}) =>
        /\ lastTick.packets = 1
        /\ lastTick.tried = lastTick.reg
        /\ bpc # "raised"

\* C2: the round after B's send failed: a round that starts with A and C in
\* the registry and B out of it sends to A and to C and never to B.
C2_NextRoundSkipsB ==
    (lastTick.captured /\ lastTick.reg = {"A", "C"}) => lastTick.tried = {"A", "C"}

\* C3: within one round a failed send takes nothing from the other peers:
\* the send is attempted to every peer of the round, and only the peers
\* whose send failed leave the registry, once the round is over.
C3_FailureIsLocal ==
    (lastTick.captured /\ Cardinality(lastTick.reg) >= 2) =>
        /\ \A p \in lastTick.reg : p \in lastTick.tried
        /\ lastTick.dead \subseteq lastTick.tried
        /\ bpc # "raised"

\* C4: the fan-out is concurrent: with two or more peers in the round, the
\* sends of the frame to all of them are under way at once, so that one that
\* stalls holds up no other.
C4_SendsConcurrent ==
    (lastTick.captured /\ Cardinality(lastTick.reg) >= 2) =>
        lastTick.inflight = Cardinality(lastTick.reg)

\* C6: the registry holds exactly the peers whose handler is running: a peer
\* is in it from accept on, and out of it once its handler has ended, however
\* it ended, so that no tick can start with a peer whose handler has ended.
C6_RegistryMatchesHandlers ==
    \A p \in Peers : (p \in clients) <=> (hstate[p] = "open")

\* C6 happens: one handler was ended by an exception, another by its
\* connection, a third is still running
C6_Witness ==
    \E p, q, r \in Peers :
        /\ hstate[p] = "failed"
        /\ hstate[q] = "closed"
        /\ hstate[r] = "open"
        /\ clients = {r}

\* the wire format: a first line that is a JSON object and, in a frame
\* packet, a payload line of valid base64 that decodes to an image
FirstLine(raw) == json_loads(Split1(raw.s)[1])
HasPayloadLine(raw) == Len(Split1(raw.s)) > 1
Payload(raw) == b64decode(Split1(raw.s)[2])
IsMetaObject(raw) == ~raw.bin /\ FirstLine(raw).ok /\ FirstLine(raw).val.tag = "dict"
IsFramePacket(raw) ==
    /\ IsMetaObject(raw)
    /\ HasPayloadLine(raw)
    /\ DictGet(FirstLine(raw).val, K_type, PyNone) = PyStr(S_frame)
CorruptPayload(raw) ==
    IsFramePacket(raw) /\ (~Payload(raw).ok \/ ~HasImageHeader(Payload(raw).b))
SzMismatch(raw) ==
    /\ IsFramePacket(raw)
    /\ Payload(raw).ok
    /\ DictGet(FirstLine(raw).val, K_sz, PyNone) # PyInt(Len(Payload(raw).b))
NonConforming(raw) == ~IsMetaObject(raw) \/ CorruptPayload(raw)

\* C10: a handler that takes a malformed message skips it and goes on: the
\* message does not end the handler.
C10_MalformedIsSkipped ==
    (lastMsg.peer \in Peers /\ NonConforming(lastMsg.raw)) =>
        hstate[lastMsg.peer] # "failed"

----------------------------------------------------------------------------
(* Properties of make_packet and parse_packet (specification SpecWire)     *)

DropResult == [raised |-> FALSE, meta |-> PyNone, frame |-> NoFrame]

\* C7: parse_packet never raises, and every input that does not conform to
\* the wire format yields exactly (None, None).
C7_NonConformingDrops ==
    (wPc = "parsed" /\ NonConforming(wRaw)) => wOut = DropResult

\* C8: a frame packet whose sz differs from the length of its decoded
\* payload, or whose payload is corrupt, raises nothing and delivers no frame.
C8_MismatchDeliversNothing ==
    (wPc = "parsed" /\ (SzMismatch(wRaw) \/ CorruptPayload(wRaw))) =>
        ~wOut.raised /\ ~wOut.frame.some

\* the metadata parse_packet returned is what make_packet was given, field by
\* field, sz is the length of the bytes the payload line encodes, and there
\* is a frame
RoundTrips ==
    /\ ~wOut.raised
    /\ wOut.meta.tag = "dict"
    /\ DictGet(wOut.meta, K_type, PyNone) = PyStr(S_frame)
    /\ DictGet(wOut.meta, K_v, PyNone) = PyStr(Version)
    /\ DictGet(wOut.meta, K_src, PyNone) = PyStr(wMade.src)
    /\ DictGet(wOut.meta, K_w, PyNone) = PyInt(wMade.frame.w)
    /\ DictGet(wOut.meta, K_h, PyNone) = PyInt(wMade.frame.h)
    /\ DictGet(wOut.meta, K_sz, PyNone) = PyInt(wMade.sz)
    /\ DictGet(wOut.meta, K_t, PyNone) = PyInt(wMade.t)
    /\ HasPayloadLine(wRaw)
    /\ Payload(wRaw).ok
    /\ wMade.sz = Len(Payload(wRaw).b)
    /\ wOut.frame.some

----------------------------------------------------------------------------
(* Properties of the Broadcaster and the Receiver (specification           *)
(* SpecServers)                                                            *)

IsPing(raw) ==
    IsMetaObject(raw) /\ DictGet(FirstLine(raw).val, K_type, PyNone) = PyStr(S_ping)

\* C11: a handler that takes a ping hands exactly one pong to that peer's
\* socket before it takes anything else: the pong echoes the ping's t and
\* carries the server's time, and it is appended to what was sent before, so
\* pongs leave in the order of their pings.  Nothing else sends a pong.  (A
\* send that finds the connection closed ends the handler instead.)
C11_PingGetsItsPong ==
    [][ IF /\ msgs' = msgs + 1
           /\ IsPing(lastMsg'.raw)
           /\ hstate'[lastMsg'.peer] = "open"
        THEN \E st \in ServerTimes :
                outbox' = Append(outbox,
                                 [to |-> lastMsg'.peer, type |-> "pong",
                                  t |-> DictGet(FirstLine(lastMsg'.raw).val, K_t, PyNone),
                                  st |-> st])
        ELSE outbox' = outbox ]_vars

\* C11 happens: one peer's pings with t = 7 and then t = 0 were each answered,
\* in that order
C11_Witness ==
    /\ Len(outbox) = 2
    /\ outbox[1].to = outbox[2].to
    /\ outbox[1].t = PyInt(7)
    /\ outbox[2].t = PyInt(0)
    /\ outbox[2].st \in ServerTimes

----------------------------------------------------------------------------
(* Properties of the Viewer (specification SpecConnect)                    *)

\* C12: when the Viewer's session has ended on a connection error or on the
\* server closing the connection, the terminal is as it was saved at the
\* start: input mode and cursor.
C12_TerminalRestored ==
    (role = "connect" /\ session = "CLOSED" /\ cause \in {"connect", "error", "closed"}) =>
        term = old_settings

----------------------------------------------------------------------------
(* Properties of the Receiver (specification SpecReceive)                  *)

\* how many times a cleanup step was taken
StepCount(step) == Cardinality({i \in DOMAIN steps : steps[i] = step})

\* C13: when the Receiver has ended on the quit key, on a signal or on an
\* exception raised in the render loop, the terminal's input mode acquired at
\* the start has been released exactly once.
C13_TerminalReleasedOnce ==
    (role = "receive" /\ session = "CLOSED" /\ cause \in {"quit", "interrupt", "raised"}) =>
        /\ StepCount("terminal") = 1
        /\ term = old_settings

----------------------------------------------------------------------------
(* Properties of the Bidirectional role (specification SpecChat)           *)

\* C14: when a chat session that opened the camera has ended on the quit key,
\* on a signal or on a socket error (connect failure, send failure,
\* connection close), the capture device has been released exactly once.
C14_CaptureReleasedOnce ==
    (role = "chat" /\ session = "CLOSED"
        /\ cause \in {"quit", "interrupt", "connect", "send", "error"}) =>
        /\ StepCount("capture") = 1
        /\ cap = "released"

\* every step a comes before every step b in the cleanup
Before(a, b) == \A i, j \in DOMAIN steps : (steps[i] = a /\ steps[j] = b) => i < j

\* C15: in a chat session ended by quit, the tasks are stopped and the
\* sockets closed before the capture device is released, and the capture
\* device is released before the terminal is restored.
C15_CleanupOrder ==
    (role = "chat" /\ session = "CLOSED" /\ cause \in {"quit", "interrupt"}) =>
        /\ Before("tasks", "capture")
        /\ Before("sockets", "capture")
        /\ Before("capture", "terminal")

----------------------------------------------------------------------------
(* Properties of the two listening roles (specification SpecServers)       *)

C17_BindFailureExitsNonZero ==
    (session = "CLOSED" /\ cause = "bind") =>
        /\ \A p \in Peers : hstate[p] = "new"
        /\ frame_num = 0
        /\ rendered = NoFrame
        /\ ~listening
        /\ exitCode # 0

----------------------------------------------------------------------------
(* More properties of the Receiver (specification SpecReceive)             *)

\* C18: a step in which the connection of one sender ends (its handler goes
\* from open to closed) removes that sender from peers and nothing else:
\* the other handlers, the latest-frame slot, the frame counter, the render
\* loop and the session are as before.
C18_SenderFailureIsLocal ==
    [][ \A p \in Senders :
          (hstate[p] = "open" /\ hstate'[p] = "closed") =>
              /\ peers' = peers \ {p}
              /\ \A q \in Senders \ {p} : hstate'[q] = hstate[q]
              /\ latest_frame' = latest_frame
              /\ latest_meta' = latest_meta
              /\ frame_count' = frame_count
              /\ rpc' = rpc
              /\ rendered' = rendered
              /\ session' = session
              /\ listening' = listening ]_vars

\* one sender is gone, the other is still connected, the session is active
\* and the slot holds a frame
C18_Witness ==
    /\ role = "receive"
    /\ session = "ACTIVE"
    /\ hstate["A"] = "closed"
    /\ hstate["B"] = "open"
    /\ peers = {"B"}
    /\ latest_frame.some
    /\ frame_count = 1

\* C19: the Receiver has one slot for the latest frame.  A step that receives
\* a message with a decodable frame puts that frame and its metadata in the
\* slot and counts it; a step that receives any other message, and a step
\* that receives none, leave the slot and the counter as they are.
C19_SlotHoldsLatestFrame ==
    [][ IF msgs' = msgs + 1 /\ parse_packet(lastMsg'.raw).frame.some
        THEN /\ latest_frame' = parse_packet(lastMsg'.raw).frame
             /\ latest_meta' = parse_packet(lastMsg'.raw).meta
             /\ frame_count' = frame_count + 1
        ELSE /\ latest_frame' = latest_frame
             /\ latest_meta' = latest_meta
             /\ frame_count' = frame_count ]_vars

\* two frames were received one after the other; the slot holds the second,
\* which differs from the first
C19_Witness ==
    /\ role = "receive"
    /\ msgs = 2
    /\ frame_count = 2
    /\ lastMsg.raw = Text(make_packet(Frame(2, 1, TRUE), <<97>>, 0))
    /\ latest_frame = parse_packet(lastMsg.raw).frame
    /\ latest_frame.w = 2
    /\ latest_meta = parse_packet(lastMsg.raw).meta

----------------------------------------------------------------------------
(* The render loop's cadence (specification SpecReceiveFair)               *)

\* C20: while the Receiver's session is active, the render loop keeps going
\* round: ready to run, it gets its pass and goes to sleep; asleep, it wakes
\* up; whatever the senders send.  A pass that neither quits nor raises draws
\* the frame in the slot, the same as before if no other arrived.
C20_RenderLoopKeepsTicking ==
    /\ (session = "ACTIVE" /\ rpc = "run") ~> (rpc = "sleep" \/ session # "ACTIVE")
    /\ (session = "ACTIVE" /\ rpc = "sleep") ~> (rpc = "run" \/ session # "ACTIVE")
    /\ [][ (rpc = "run" /\ rpc' = "sleep") => rendered' = latest_frame ]_vars

\* the loop has drawn a frame, slept and woken up; every sender is gone and
\* the slot still holds the frame drawn: the next pass draws it again
C20_Witness ==
    /\ role = "receive"
    /\ session = "ACTIVE"
    /\ rpc = "run"
    /\ rendered.some
    /\ rendered = latest_frame
    /\ peers = {}
    /\ \A p \in Senders : hstate[p] # "new"

----------------------------------------------------------------------------
(* More properties of the Bidirectional role (specification SpecChat)      *)

\* C21: in a chat session each shared field has one writer: a step that
\* changes the remote-frame slot or the received counter is a turn of
\* recv_loop, a step that changes the sent counter is a turn of send_loop,
\* a step that changes the thermal flag is a pass of render_loop.
C21_SingleWriter ==
    [][ /\ (remote_frame' # remote_frame \/ frame_count'[2] # frame_count[2]) =>
              \E raw \in ViewerMsgs : CRecv(raw)
        /\ (frame_count'[1] # frame_count[1]) =>
              \E captured \in BOOLEAN, t \in {7}, sent \in BOOLEAN : CSend(captured, t, sent)
        /\ (thermal' # thermal) =>
              \E key \in Keys, drawn \in BOOLEAN : CRender(key, drawn) ]_vars

\* each of the three loops has written its field
C21_Witness ==
    /\ role = "chat"
    /\ session = "ACTIVE"
    /\ frame_count = <<1, 1>>
    /\ remote_frame.some
    /\ thermal

----------------------------------------------------------------------------
(* Properties of the latency probe (specification SpecPing)                *)

\* C22: a probe whose reply does not come in time is given up and the
\* measurement goes on: when the run has ended after a timeout, statistics
\* have been printed all the same.
C22_TimeoutDoesNotAbort ==
    (role = "ping" /\ session = "CLOSED" /\ cause = "timeout") => stats # NoStats

\* C23: when the run has ended with k probes answered, k at least 1, the
\* statistics printed are those of the k times measured: their number, their
\* mean, smallest, largest, and largest minus smallest.
C23_StatsOverCompleted ==
    (role = "ping" /\ session = "CLOSED" /\ cause \in {"done", "timeout"} /\ times # <<>>) =>
        /\ stats.count = Len(times)
        /\ stats.sum * Len(times) = SumSeq(times) * stats.over
        /\ stats.over > 0
        /\ stats.mn = SeqMin(times)
        /\ stats.mx = SeqMax(times)
        /\ stats.jitter = SeqMax(times) - SeqMin(times)

----------------------------------------------------------------------------
(* Properties of the latency window (specification SpecWindow)             *)

\* C24: the window never holds more than 60 samples; after n valid frames
\* it holds the latest min(n, 60) samples, oldest first.
C24_WindowHoldsLatest ==
    /\ Len(latencies) <= LatencyWindow
    /\ Len(latencies) = (IF Arrived < LatencyWindow THEN Arrived ELSE LatencyWindow)
    /\ \A i \in DOMAIN latencies : latencies[i] = Arrived - Len(latencies) + i

\* 62 frames have arrived at a Receiver: the window holds samples 3 to 62
C24_Witness ==
    /\ role = "receive"
    /\ Arrived = 62
    /\ Len(latencies) = 60
    /\ latencies[1] = 3
    /\ latencies[60] = 62

----------------------------------------------------------------------------
(* Properties of discovery (specifications SpecDiscover, SpecDiscoverFair) *)

\* C25: when a scan has ended, the entries collected hold each announced
\* service instance at most once and the number of peers reported is the
\* number of distinct instances collected.
C25_AnnouncementsDeduplicated ==
    (role = "discover" /\ session = "CLOSED" /\ cause \in {"done", "interrupt"}) =>
        /\ \A i, j \in DOMAIN found : found[i].name = found[j].name => i = j
        /\ summary.count = Cardinality({found[i].name : i \in DOMAIN found})

----------------------------------------------------------------------------
(* More properties of the two listening roles (specification SpecServers)  *)

\* C27: a Broadcaster or Receiver whose discovery backend is absent or whose
\* registration failed performs no discovery unregistration: no step it
\* takes adds an unregistration to what its shutdown has done.
C27_NoUnregistrationUnlessRegistered ==
    [][ (mdns \in {"none", "failed"}) =>
           \A i \in DOMAIN steps' : (steps'[i] = "mdns") => i \in DOMAIN steps ]_vars

----------------------------------------------------------------------------
(* Properties of the renderer (spec SpecRender)                            *)

\* C28: rendering a frame into rows >= 1 by cols >= 1, with or without the
\* thermal palette, as half blocks or as ASCII, yields exactly rows lines of
\* exactly cols cells of one character each; a half-block cell (row, x) has
\* the foreground of pixel (x, 2*row) and the background of pixel (x, 2*row+1).
C28_RenderedGrid ==
    lines # NoLines =>
        /\ Len(lines) = rows
        /\ \A row \in 1..rows :
            /\ Len(lines[row].parts) = cols
            /\ \A x \in 1..cols :
                LET cell == lines[row].parts[x]
                IN  IF ascii_mode
                    THEN \E i \in DOMAIN ASCII_RAMP : cell.ch = ASCII_RAMP[i]
                    ELSE /\ cell.ch = UPPER_HALF
                         /\ cell.fg = Shade(resized[<<x - 1, 2 * (row - 1)>>],
                                            thermal, brightness)
                         /\ cell.bg = Shade(resized[<<x - 1, 2 * (row - 1) + 1>>],
                                            thermal, brightness)

\* a thermal half-block rendering of two rows by two columns whose second
\* line has a cell with different colours above and below
C28_Witness ==
    /\ lines # NoLines
    /\ ~ascii_mode
    /\ thermal
    /\ rows = 2
    /\ cols = 2
    /\ lines[2].parts[1].fg # lines[2].parts[1].bg

----------------------------------------------------------------------------
(* Properties of the keys (spec SpecKeys)                                  *)

\* C29: in the local display loop, the Viewer and the Receiver the brightness
\* stays within [0.2, 2.0] whatever keys are pressed: '+' (or '=') raises it
\* by 0.1 unless that would exceed 2.0, '-' (or '_') lowers it by 0.1 unless
\* that would go below 0.2, and at a bound the key leaves it at the bound.
C29_BrightnessClamped ==
    [][/\ brightness \in 2..20
       /\ brightness' \in 2..20
       /\ (\/ \E ch \in {"+", "="}, o \in BOOLEAN, r \in BOOLEAN : MainKeyPress(ch, o, r)
           \/ \E ch \in {"+", "="} : ViewerKeyPress(ch))
            => brightness' = IF brightness = 20 THEN 20 ELSE brightness + 1
       /\ (\/ \E ch \in {"-", "_"}, o \in BOOLEAN, r \in BOOLEAN : MainKeyPress(ch, o, r)
           \/ \E ch \in {"-", "_"} : ViewerKeyPress(ch))
            => brightness' = IF brightness = 2 THEN 2 ELSE brightness - 1
      ]_vars

\* a Receiver whose brightness was raised to the upper bound
C29_Witness ==
    /\ role = "receive"
    /\ session = "ACTIVE"
    /\ brightness = 20

\* C30: the thermal key changes only the thermal flag, the ascii key only the
\* ascii flag, a brightness key only the brightness, and a key the role does
\* not recognize leaves thermal, ascii, brightness, pause and camera as they are.
C30_OrthogonalControls ==
    [][LET main(K) == \E ch \in K, o \in BOOLEAN, r \in BOOLEAN : MainKeyPress(ch, o, r)
           viewer(K) == \E ch \in K : ViewerKeyPress(ch)
           chat(K) == \E ch \in K : ChatKeyPress(ch)
           others(V) == \A v \in {"thermal", "ascii_mode", "brightness", "paused",
                                  "cam_idx"} \ V : render_state'[v] = render_state[v]
       IN  /\ (main({"t"}) \/ viewer({"t"}) \/ chat({"t"}))
                => thermal' = ~thermal /\ others({"thermal"})
           /\ (main({"a"}) \/ viewer({"a"}))
                => ascii_mode' = ~ascii_mode /\ others({"ascii_mode"})
           /\ (main({"+", "=", "-", "_"}) \/ viewer({"+", "=", "-", "_"}))
                => others({"brightness"})
           /\ (\/ main({"x", "1"})
               \/ viewer({" ", "c", "C", "f", "b", "s", "x", "1"})
               \/ chat({"a", "+", "=", "-", "_", " ", "c", "C", "f", "b", "s", "x", "1"}))
                => others({})
      ]_vars

\* a Viewer in thermal ASCII with the brightness raised by two steps
C30_Witness ==
    /\ role = "connect"
    /\ session = "ACTIVE"
    /\ thermal
    /\ ascii_mode
    /\ brightness = 12

----------------------------------------------------------------------------
(* Properties of the local display loop (spec SpecLocal)                   *)

\* C31: in the local display loop a failed read of a file source puts the file
\* back to its start and the loop goes on, the session stays up and no frame
\* is counted; a failed read of a camera or of the screen capture ends the
\* session through cleanup (terminal restored, capture released, exit code 0).
C31_ReadFailure ==
    [][(/\ \E ch \in LocalKeys \ QuitKeys, o \in BOOLEAN, r \in BOOLEAN :
                LocalStep(ch, o, r, FALSE)
        /\ ~paused'
        /\ source \in {"file", "camera"} => cap' # "none")
        => /\ source = "file" =>
                /\ pos' = 0
                /\ session' = "ACTIVE"
                /\ frame_num' = frame_num
                /\ last_output' = last_output
           /\ source \in {"camera", "screen"} =>
                /\ session' = "CLOSED"
                /\ exitCode' = 0
                /\ term' = [mode |-> "cooked", cursor |-> "shown"]
                /\ cap' # "open"
                /\ ffmpeg_proc' # "running"
      ]_vars

\* a file played to its end and put back to the start, the session still up
C31_Witness ==
    /\ source = "file"
    /\ session = "ACTIVE"
    /\ frame_num = MaxFileLen
    /\ pos = 0

\* C35: while the local display loop is paused no frame is read or rendered,
\* the frame counter and the last output stay as they are, and the key is
\* still read in every pass: the pause key resumes rendering in that same
\* pass and a quit key ends the session.
C35_PausedLoop ==
    [][LET pass(K) == \E ch \in K, o \in BOOLEAN, r \in BOOLEAN, ret \in BOOLEAN :
                        LocalStep(ch, o, r, ret)
       IN  /\ (pass(LocalKeys \ QuitKeys) /\ paused')
                => /\ frame_num' = frame_num
                   /\ last_output' = last_output
                   /\ pos' = pos
                   /\ session' = "ACTIVE"
           /\ (paused /\ pass({" "}))
                => /\ ~paused'
                   /\ source = "test" =>
                        /\ frame_num' = frame_num + 1
                        /\ last_output' = frame_num + 1
           /\ (paused /\ pass({"q"}))
                => /\ session' = "CLOSED"
                   /\ term' = [mode |-> "cooked", cursor |-> "shown"]
      ]_vars

\* a paused loop that has rendered a frame before
C35_Witness ==
    /\ role = "local"
    /\ session = "ACTIVE"
    /\ paused
    /\ frame_num = 1
    /\ last_output = 1

----------------------------------------------------------------------------
(* Properties of the Relay-assisted Viewer (spec SpecRelay)                *)

\* C32: for every relay URL the Relay-assisted Viewer is the Viewer whose
\* connection target is the host[:port] part of the URL: run_relay hands
\* exactly that part to run_connect, and every step after that is a step of
\* the Viewer.
C32_RelayIsViewer ==
    [][/\ RelayStart => connect_to' = relay_url.hostport
       /\ role = "connect" => NextConnect
      ]_vars

----------------------------------------------------------------------------
(* Properties of Broadcaster and Viewer together (spec SpecEndToEndFair)   *)

\* C33: with the Broadcaster on the test pattern and the Viewer "A" connected,
\* every frame the Broadcaster produces while "A" is registered is eventually
\* received and drawn by the Viewer.
C33_FramesReachViewer ==
    \A F \in 1..MaxTicks :
        (/\ test
         /\ lastTick.n = F
         /\ lastTick.captured
         /\ "A" \in lastTick.reg) ~> (viewed >= F)

----------------------------------------------------------------------------
(* Further properties of the Broadcaster (spec Spec)                       *)

\* C34: in the Broadcaster a failed read of the capture device ends the
\* session: the broadcast loop does not go on after a tick whose read failed.
C34_ReadFailureEndsSession ==
    [][BroadcastTick(FALSE) => session' # "ACTIVE"]_vars

----------------------------------------------------------------------------
(* Properties of the grade (spec SpecGrade)                                *)

\* C36: the latency probe puts the average round trip into exactly one tier:
\* excellent below 10 ms, good from 10 to below 30, fair from 30 to below
\* 100, poor from 100 on.
C36_GradeByThresholds ==
    stats # NoStats =>
        /\ stats.grade \in {"excellent", "good", "fair", "poor"}
        /\ stats.grade = "excellent" <=> stats.sum < 10 * stats.over
        /\ stats.grade = "good" <=>
                (10 * stats.over <= stats.sum /\ stats.sum < 30 * stats.over)
        /\ stats.grade = "fair" <=>
                (30 * stats.over <= stats.sum /\ stats.sum < 100 * stats.over)
        /\ stats.grade = "poor" <=> 100 * stats.over <= stats.sum

\* ten round trips of 30 ms each: an average on a threshold, graded fair
C36_Witness ==
    /\ stats # NoStats
    /\ stats.sum = 30 * stats.over
    /\ stats.grade = "fair"

----------------------------------------------------------------------------
(* Properties of the Viewer in front of a stalled peer (spec SpecStallFair) *)

\* C37: in the Viewer a quit key waiting in the buffer eventually ends the
\* session with the terminal restored, also when the peer has stalled and
\* sends no further frame.
C37_BufferedQuitEndsSession ==
    (keybuf = "q" /\ stalled /\ session = "ACTIVE")
        ~> (session = "CLOSED" /\ term = [mode |-> "cooked", cursor |-> "shown"])

----------------------------------------------------------------------------
(* Properties of the latency probe on a Broadcaster's connection (SpecProbe) *)

\* C38: a frame packet that arrives between a ping and its pong is not taken
\* as the reply: the turn that finds it records no sample from it and the
\* measurement goes on.
C38_FrameIsNotTheReply ==
    [][\A resp \in ProbeFrames, rtt \in 1..MaxRtt :
          PTurn(resp, rtt) => (session' = "ACTIVE" /\ cause' # "raised")]_vars

----------------------------------------------------------------------------
(* Properties of the two listening roles' advertisement (SpecServers)      *)

\* C39: a registration that was made is taken back exactly once on every way
\* the session ends: no ended session is still advertised, no service is
\* advertised whose port could not be bound, and the shutdown unregisters at
\* most once.
C39_AdvertisedOnlyWhileLive ==
    /\ session = "CLOSED" => mdns # "registered"
    /\ cause = "bind" => mdns # "registered"
    /\ Cardinality({i \in DOMAIN steps : steps[i] = "mdns"}) <= 1

----------------------------------------------------------------------------
(* Properties of cleanup under re-entry (SpecCleanup)                      *)

\* C40: when a signal arrives while cleanup is in progress, the capture
\* device is released at most once, the session ends once, and it ends with
\* the terminal in the settings saved at the start.
C40_CleanupReentrant ==
    /\ releases <= 1
    /\ exits <= 1
    /\ session = "CLOSED" => term = old_settings

====
